---------------------------- MODULE Spec2Model ----------------------------
(***************************************************************************)
(* OTRSP client: protocol codec (protocol.rs), the link actor and its      *)
(* command channel (io.rs), the device facade (device.rs), the builder     *)
(* (builder.rs) and the MockPort byte stream (transport.rs).               *)
(*                                                                         *)
(* Bytes are naturals 0..127 (ASCII); byte strings are sequences of them.  *)
(* Every byte in the port's read buffer carries a history tag `of`: the    *)
(* request whose response it belongs to (0 = the builder's ?NAME query).   *)
(***************************************************************************)
EXTENDS Naturals, Sequences, FiniteSets, TLC

VARIABLES
    \* MockState (transport.rs)
    read_buf, write_log, closed, read_closed,
    \* OtrspBuilder::build_with_port (builder.rs)
    bpc, name,
    \* io_loop locals and the command channel (io.rs)
    apc, cur, disconnected_sent, needs_drain, queue, cancel, tx_dropped,
    read_deadline,
    \* reply slots (oneshot channels) and per-request history
    slot, trk,
    \* callers of the facade (device.rs) / IoHandle (io.rs)
    call,
    \* broadcast::Sender<SwitchEvent>: every event sent, in order
    bus,
    \* clock of the timed specification (seconds); constant 0 when untimed
    timed, now,
    \* broadcast::Receiver<SwitchEvent> of each subscriber
    subs,
    \* a value on its way through the codec (protocol.rs)
    codec,
    \* drain_stale's clock: time since it started and since the read in
    \* progress was issued
    dr

vars == << read_buf, write_log, closed, read_closed, bpc, name,
           apc, cur, disconnected_sent, needs_drain, queue, cancel, tx_dropped,
           read_deadline, slot, trk, call, bus, timed, now, subs, codec, dr >>

portVars  == << read_buf, write_log, closed, read_closed >>
buildVars == << bpc, name >>
clockVars == << timed, now >>
sideVars  == << subs, codec, dr >>

----------------------------------------------------------------------------
\* Bounds of the model
NumSubs      == 1      \* receivers obtained from subscribe()
NumCallers   == 3      \* calls made on the built device (Spec)
TimedCallers == 4      \* calls made in the timed specification
LiveCallers  == 2      \* calls made in the fair specification
BuildCallers == 2      \* calls made after the builder ran
MaxEvents    == 66     \* events on the bus before callers stop calling (SpecBus)
SubscribeBy  == 1      \* a receiver subscribes with at most this many events out
DrainCallers == 2      \* queries made in the specification of the drain
BusCallers   == 1      \* callers that call again and again (SpecBus)
DrainTickMs  == 10     \* milliseconds in one step of drain_stale's clock
FeedMax      == 2      \* bytes a chattering device has in the buffer at most
MaxTime      == 3      \* seconds the clock of the timed specification runs
FullCallers  == 34     \* calls made in the specification of the full channel
EventCallers == 2      \* concurrent callers in the specification of the events
CrLfCallers  == 3      \* queries made on the device that sends CR LF

\* Program constants
CR            == 13    \* b'\r'
LF            == 10    \* b'\n'
ChannelCap    == 32    \* mpsc::channel::<Request>(32)
CommandSecs   == 5     \* outer deadline of command / command_read
ShutdownSecs  == 2     \* outer deadline of shutdown
ReadSecs      == 1     \* actor's (and builder's) read_line deadline
DrainBuf      == 64    \* drain_stale's buffer
DrainWindowMs == 200   \* drain_stale's total window
DrainCutoffMs == 20    \* drain_stale's per-read idle cutoff
MaxPort       == 9     \* AUX ports are 0..9
MaxU8         == 255
BusCap        == 64    \* broadcast::channel::<SwitchEvent>(64)

----------------------------------------------------------------------------
\* Sequence helpers
RECURSIVE Concat(_)
Concat(ss) == IF ss = << >> THEN << >> ELSE Head(ss) \o Concat(Tail(ss))

Min(a, b) == IF a < b THEN a ELSE b

IsPrefix(p, s) == Len(p) <= Len(s) /\ SubSeq(s, 1, Len(p)) = p

Drop(s, n) == SubSeq(s, n + 1, Len(s))

----------------------------------------------------------------------------
\* protocol.rs: encoders.  An encoder result is [ok, bytes].

\* format!("{n}") of a u8: decimal, no padding
RECURSIVE Decimal(_)
Decimal(n) == IF n < 10 THEN << 48 + n >>
              ELSE Decimal(n \div 10) \o << 48 + (n % 10) >>

Enc(bytes) == [ok |-> TRUE, bytes |-> bytes]
EncErr     == [ok |-> FALSE, bytes |-> << >>]

encode_tx(radio) ==
    IF radio = 1 THEN << 84, 88, 49, CR >> ELSE << 84, 88, 50, CR >>

\* (mutant) the suffixes of Stereo and ReverseStereo are exchanged
encode_rx_swapped(radio, mode) ==
    << 82, 88 >> \o (IF radio = 1 THEN << 49 >> ELSE << 50 >>)
        \o (CASE mode = 0 -> << >> [] mode = 1 -> << 82 >> [] OTHER -> << 83 >>)
        \o << CR >>

\* mode: 0 = Mono, 1 = Stereo, 2 = ReverseStereo
encode_rx(radio, mode) ==
    << 82, 88 >> \o (IF radio = 1 THEN << 49 >> ELSE << 50 >>)
        \o (CASE mode = 0 -> << >> [] mode = 1 -> << 83 >> [] OTHER -> << 82 >>)
        \o << CR >>

encode_aux(port, value) ==
    IF port > MaxPort THEN EncErr
    ELSE Enc(<< 65, 85, 88 >> \o Decimal(port) \o Decimal(value) \o << CR >>)

encode_query_name == << 63, 78, 65, 77, 69, CR >>

\* (mutant) the query encoder without the port check
encode_query_aux_unchecked(port) ==
    Enc(<< 63, 65, 85, 88 >> \o Decimal(port) \o << CR >>)

encode_query_aux(port) ==
    IF port > MaxPort THEN EncErr
    ELSE Enc(<< 63, 65, 85, 88 >> \o Decimal(port) \o << CR >>)

encode_raw(cmd) == cmd \o << CR >>

----------------------------------------------------------------------------
\* protocol.rs: parsers

IsDigit(b) == b >= 48 /\ b <= 57

RECURSIVE TrimEndIn(_, _)
TrimEndIn(s, set) ==
    IF s # << >> /\ s[Len(s)] \in set THEN TrimEndIn(SubSeq(s, 1, Len(s) - 1), set)
    ELSE s

RECURSIVE TrimStartIn(_, _)
TrimStartIn(s, set) ==
    IF s # << >> /\ Head(s) \in set THEN TrimStartIn(Tail(s), set) ELSE s

\* char::is_whitespace restricted to ASCII
Spaces == {9, 10, 11, 12, 13, 32}
Trim(s) == TrimStartIn(TrimEndIn(s, Spaces), Spaces)

\* s.trim_end_matches(['\r', '\n']).trim()
StripLine(bytes) == Trim(TrimEndIn(bytes, {CR, LF}))

\* (mutant) the NAME prefix is left in place
parse_name_keeps_prefix(bytes) == StripLine(bytes)

parse_name_response(bytes) ==
    LET s == StripLine(bytes)
    IN  IF IsPrefix(<< 78, 65, 77, 69 >>, s) THEN Trim(Drop(s, 4)) ELSE s

\* digits of a decimal number, most significant first; the value they denote
RECURSIVE DigitsValue(_)
DigitsValue(ds) ==
    IF ds = << >> THEN 0
    ELSE 10 * DigitsValue(SubSeq(ds, 1, Len(ds) - 1)) + (ds[Len(ds)] - 48)

\* (mutant) the port filter lets one more value through (p <= 10)
PortDigitOffByOne(b) == b >= 48 /\ b <= 58

\* protocol.rs 96-98: checked_sub(b'0').filter(|&p| p <= 9)
PortDigit(b) == b >= 48 /\ b <= 57

\* (mutant) the value is taken to be a single digit
ParseU8OneDigit(s) ==
    IF Len(s) = 1 /\ IsDigit(s[1]) THEN [ok |-> TRUE, val |-> s[1] - 48]
    ELSE [ok |-> FALSE, val |-> 0]

\* str::parse::<u8>: an optional '+', then one or more digits, at most 255
ParseU8(s) ==
    LET ds == IF s # << >> /\ Head(s) = 43 THEN Tail(s) ELSE s
    IN  IF ds = << >> \/ (\E i \in 1..Len(ds) : ~IsDigit(ds[i]))
        THEN [ok |-> FALSE, val |-> 0]
        ELSE LET t == TrimStartIn(ds, {48})
             IN  IF Len(t) > 3 \/ DigitsValue(t) > 255
                 THEN [ok |-> FALSE, val |-> 0]
                 ELSE [ok |-> TRUE, val |-> DigitsValue(t)]

\* result [ok, port, val]; ok = FALSE is Error::Protocol
parse_aux_response(bytes) ==
    LET s    == StripLine(bytes)
        bad  == [ok |-> FALSE, port |-> 0, val |-> 0]
    IN  IF ~IsPrefix(<< 65, 85, 88 >>, s) THEN bad
        ELSE LET rest == Drop(s, 3)
             IN  IF rest = << >> THEN bad
                 ELSE IF ~PortDigit(rest[1]) THEN bad
                 ELSE LET v == ParseU8(Tail(rest))
                      IN  IF ~v.ok THEN bad
                          ELSE [ok |-> TRUE, port |-> rest[1] - 48, val |-> v.val]


----------------------------------------------------------------------------
\* The calls of the So2rSwitch facade (device.rs).  A call is [m, a, b].
Op(m, a, b) == [m |-> m, a |-> a, b |-> b]
NoOp == Op("none", 0, 0)

\* the text a caller passes to send_raw
RawText == << 88 >>

\* the calls a caller chooses from
Ops == { Op("set_tx", 1, 0), Op("set_rx", 2, 1), Op("set_aux", 1, 4),
         Op("set_aux", 10, 0), Op("send_raw", 0, 0),
         Op("device_name", 0, 0), Op("query_aux", 1, 0),
         Op("query_aux", 12, 0), Op("close", 0, 0) }

\* device.rs: the bytes each call hands to IoHandle (first line of each method)
Payload(o) ==
    CASE o.m = "set_tx"      -> Enc(encode_tx(o.a))
      [] o.m = "set_rx"      -> Enc(encode_rx(o.a, o.b))
      [] o.m = "set_aux"     -> encode_aux(o.a, o.b)
      [] o.m = "device_name" -> Enc(encode_query_name)
      [] o.m = "query_aux"   -> encode_query_aux(o.a)
      [] o.m = "send_raw"    -> Enc(encode_raw(RawText))
      [] OTHER               -> Enc(<< >>)

\* io.rs: the Request variant each call enqueues
Kind(o) ==
    CASE o.m \in {"set_tx", "set_rx", "set_aux", "send_raw"} -> "Write"
      [] o.m \in {"device_name", "query_aux"}                -> "WriteAndRead"
      [] OTHER                                               -> "Shutdown"

\* Results returned to callers: Result<()>, Result<String>, Result<u8>
Res(k, e, val, text) == [k |-> k, e |-> e, val |-> val, text |-> text]
NoRes    == Res("none", "", 0, << >>)
ResOk    == Res("ok", "", 0, << >>)
ResErr(e) == Res("err", e, 0, << >>)

\* Reply slots (oneshot): what the actor put in, or that the sender was dropped
SlotV(k, e, line) == [k |-> k, e |-> e, line |-> line]
SlotEmpty   == SlotV("empty", "", << >>)
SlotOk      == SlotV("ok", "", << >>)
SlotLine(l) == SlotV("line", "", l)
SlotErr(e)  == SlotV("err", e, << >>)
SlotDropped == SlotV("dropped", "", << >>)

\* SwitchEvent (event.rs)
Ev(t, a, b)  == [t |-> t, a |-> a, b |-> b]
Connected    == Ev("Connected", 0, 0)
Disconnected == Ev("Disconnected", 0, 0)

RECURSIVE Count(_, _)
Count(s, x) == IF s = << >> THEN 0
               ELSE (IF Head(s) = x THEN 1 ELSE 0) + Count(Tail(s), x)

DiscCount == Count(bus, Disconnected)

Callers == DOMAIN call

\* per-request history (not program state)
NoTrk == [wrote |-> FALSE, responded |-> FALSE, afterTimeout |-> FALSE,
          stale |-> FALSE, intr |-> FALSE, tags |-> {}, discAtReply |-> 0,
          seq |-> 0, drained |-> FALSE, inTime |-> FALSE,
          cancelAtReply |-> FALSE, ev |-> 0]

NoCall == [st |-> "idle", op |-> NoOp, res |-> NoRes, via |-> "",
           deadline |-> 0, doneAt |-> 0]

\* a receiver: whether subscribe() has returned it, the position on the bus
\* of the event it reads next, how many events it has received, the position
\* of the last one, and how many it was told it missed (RecvError::Lagged)
NoSub == [on |-> FALSE, at |-> 0, next |-> 0, got |-> 0, last |-> 0, missed |-> 0]

\* drain_stale not running; `on` says whether its clock is modelled
NoDrain == [on |-> FALSE, el |-> 0, wait |-> 0]

\* nothing in the codec
NoCodec == [pc |-> "none", port |-> 0, value |-> 0, wire |-> EncErr,
            parsed |-> [ok |-> FALSE, port |-> 0, val |-> 0], again |-> EncErr,
            line |-> << >>, text |-> << >>, op |-> NoOp, enc |-> EncErr]

----------------------------------------------------------------------------
\* transport.rs: MockPort

\* (mutant) the new bytes go in front of the log
WritePrepends(log, bytes) == bytes \o log

\* poll_write: write_log.extend_from_slice(buf)
WriteAll(log, bytes) == log \o bytes

\* poll_read returns Err when closed || read_closed
ReadFails == closed \/ read_closed

Bytes(buf) == [i \in 1..Len(buf) |-> buf[i].b]
Tags(buf)  == { buf[i].of : i \in 1..Len(buf) }
Tagged(line, c) == [i \in 1..Len(line) |-> [b |-> line[i], of |-> c]]

\* read_line (io.rs 265-287, builder.rs 109-131): bytes up to and including
\* the first CR or LF; 0 when the buffer holds no terminator yet
RECURSIVE LineEnd(_, _)
LineEnd(buf, i) ==
    IF i > Len(buf) THEN 0
    ELSE IF buf[i].b = CR \/ buf[i].b = LF THEN i
    ELSE LineEnd(buf, i + 1)

LineReady == ~ReadFails /\ LineEnd(read_buf, 1) > 0

\* the lines the device answers a query with
NameLine == << 78, 65, 77, 69, 88, CR >>
AuxLine(p) == << 65, 85, 88 >> \o Decimal(p) \o << 52, CR >>

Responses(o) ==
    IF o.m = "query_aux" THEN { AuxLine(o.a) } ELSE { NameLine }

\* a well-formed AUX response that names another port than the one queried
\* (integration.rs 234: ?AUX1 answered with AUX24)
OtherPort(p) == IF p < MaxPort THEN p + 1 ELSE 0
Mismatched(o) ==
    IF o.m = "query_aux" /\ o.a <= MaxPort THEN { AuxLine(OtherPort(o.a)) } ELSE { }

\* the byte a chattering device sends unasked, and n of them
StrayByte == 88
Stray(n) == [i \in 1..n |-> StrayByte]

\* every line the device sends in this model, and every line read_line can
\* make of them with stray bytes in front
SentLines == { NameLine } \cup { AuxLine(p) : p \in 0..MaxPort }

\* the same responses from a device that ends its lines with CR LF
\* (tests/protocol.rs 78, 97), and what read_line makes of the LF left over
CrLfResponses(o) == { l \o << LF >> : l \in Responses(o) }
LeftOver == << LF >>

DeviceLines ==
    { Stray(n) \o l : n \in 0..FeedMax, l \in SentLines }
        \cup { l \o << LF >> : l \in SentLines } \cup { LeftOver }

\* queue_read: the device answers the builder's ?NAME (c = 0) or the written
\* query c, once.  Bytes that arrive while another request is in flight are
\* recorded in that request's history.
DeviceRespond(c, line) ==
    /\ ~closed /\ ~read_closed
    /\ trk[c].wrote /\ ~trk[c].responded
    /\ IF c = 0 THEN line = NameLine
       ELSE Kind(call[c].op) = "WriteAndRead" /\ line \in DeviceLines
    /\ read_buf' = read_buf \o Tagged(line, c)
    /\ trk' = [d \in DOMAIN trk |->
                 IF d = c THEN [trk[d] EXCEPT !.responded = TRUE,
                                              !.inTime = (cur = c /\ apc = "read")]
                 ELSE IF d = cur /\ d # 0 THEN [trk[d] EXCEPT !.intr = TRUE]
                 ELSE trk[d]]
    /\ UNCHANGED << write_log, closed, read_closed, buildVars, apc, cur,
                    disconnected_sent, needs_drain, queue, cancel, tx_dropped,
                    read_deadline, slot, call, bus, clockVars, sideVars >>

\* a device that sends a byte whenever it likes, asked or not (queue_read
\* while the actor runs); the byte belongs to no request
DeviceFeed ==
    /\ ~closed /\ ~read_closed /\ Len(read_buf) < FeedMax
    /\ read_buf' = Append(read_buf, [b |-> StrayByte, of |-> 0])
    /\ UNCHANGED << write_log, closed, read_closed, buildVars, apc, cur,
                    disconnected_sent, needs_drain, queue, cancel, tx_dropped,
                    read_deadline, slot, trk, call, bus, clockVars, sideVars >>

\* MockPort::close
PortClose ==
    /\ ~closed
    /\ closed' = TRUE
    /\ UNCHANGED << read_buf, write_log, read_closed, buildVars, apc, cur,
                    disconnected_sent, needs_drain, queue, cancel, tx_dropped,
                    read_deadline, slot, trk, call, bus, clockVars, sideVars >>

\* MockPort::close_read
PortCloseRead ==
    /\ ~closed /\ ~read_closed
    /\ read_closed' = TRUE
    /\ UNCHANGED << read_buf, write_log, closed, buildVars, apc, cur,
                    disconnected_sent, needs_drain, queue, cancel, tx_dropped,
                    read_deadline, slot, trk, call, bus, clockVars, sideVars >>

----------------------------------------------------------------------------
\* builder.rs: OtrspBuilder::build_with_port

\* (mutant) a build without a name leaves the name empty
UnknownEmpty == << >>

\* builder.rs 75, 79, 82: "Unknown".to_string()
Unknown == << 85, 110, 107, 110, 111, 119, 110 >>

\* builder.rs 63-65: the error of a failed ?NAME write
BuildWriteError == "Transport"

\* io.rs 130-131: the actor's locals when io_loop starts
InitialDisconnectedSent == FALSE
InitialNeedsDrain       == FALSE

\* builder.rs 86-90: the event bus is created, Connected is sent, the actor is
\* spawned
Spawn ==
    /\ bus' = << Connected >>
    /\ apc' = "idle"
    /\ disconnected_sent' = InitialDisconnectedSent
    /\ needs_drain' = InitialNeedsDrain
    /\ bpc' = "built"

\* builder.rs 61-65 and 81-83: query_name disabled, or the ?NAME write
BuildStart(q) ==
    /\ bpc = "start"
    /\ IF ~q
       THEN /\ Spawn
            /\ name' = [text |-> Unknown, how |-> "disabled"]
            /\ UNCHANGED << write_log, trk, read_deadline >>
       ELSE IF closed
       THEN /\ bpc' = "failed"
            /\ name' = [text |-> << >>, how |-> BuildWriteError]
            /\ UNCHANGED << write_log, trk, read_deadline, bus, apc,
                            disconnected_sent, needs_drain >>
       ELSE /\ write_log' = WriteAll(write_log, << 63, 78, 65, 77, 69, CR >>)
            /\ trk' = [trk EXCEPT ![0].wrote = TRUE]
            /\ bpc' = "name_read"
            /\ read_deadline' = now + ReadSecs
            /\ UNCHANGED << name, bus, apc, disconnected_sent, needs_drain >>
    /\ UNCHANGED << read_buf, closed, read_closed, cur, queue, cancel,
                    tx_dropped, slot, call, clockVars, sideVars >>

\* builder.rs 67-80: the line, a read error, or the deadline; then the spawn
BuildRead ==
    /\ bpc = "name_read"
    /\ IF ReadFails
       THEN /\ name' = [text |-> Unknown, how |-> "read_error"]
            /\ UNCHANGED read_buf
       ELSE IF LineReady
       THEN LET n == LineEnd(read_buf, 1)
            IN  /\ name' = [text |-> parse_name_response(Bytes(SubSeq(read_buf, 1, n))),
                            how |-> "parsed"]
                /\ read_buf' = Drop(read_buf, n)
       ELSE /\ (timed => now >= read_deadline)
            /\ name' = [text |-> Unknown, how |-> "timeout"]
            /\ read_buf' = << >>
    /\ Spawn
    /\ UNCHANGED << write_log, closed, read_closed, cur, queue, cancel,
                    tx_dropped, read_deadline, slot, trk, call,
                    clockVars, sideVars >>

----------------------------------------------------------------------------
\* io.rs: the link actor

\* (mutant) the channel hands out the newest request first
QueueLast(q) == Len(q)

\* rx.recv(): the position in the channel of the request handed out next
QueueNext(q) == 1

RemoveAt(q, i) == SubSeq(q, 1, i - 1) \o SubSeq(q, i + 1, Len(q))

\* (mutant) a send waits until every receiver has room for the event
CanPublishWhenRoom(b, s) ==
    \A r \in DOMAIN s : s[r].on => Len(b) - (s[r].next - 1) < BusCap

\* broadcast::Sender::send is not async and its result is discarded
\* (`let _ = event_tx.send(..)`): a publisher never waits for a receiver
CanPublish(b, s) == TRUE

\* io.rs 182-185, 200-203, 214-217: the guarded Disconnected send
EmitDisconnected(b, sent) == IF ~sent THEN Append(b, Disconnected) ELSE b

\* (mutant) the guard is never set
SentAfterFailureForgotten == FALSE

\* io.rs 184, 202, 216: the guard after an I/O failure
SentAfterFailure == TRUE

\* (mutant) io_loop ends without the final send
ExitBusSilent(b, sent) == b

\* (mutant) the send on the way out ignores the guard
ExitBusUnguarded(b, sent) == Append(b, Disconnected)

\* io.rs 161-163: the send on the way out of io_loop
ExitBus(b, sent) == IF ~sent THEN Append(b, Disconnected) ELSE b

\* (mutant) the reply is sent before the event
BusBeforeEvent(before, after) == before

\* io.rs 183-188: the event is sent, then the reply; the events a caller that
\* has the reply can rely on
BusAtReply(before, after) == after

\* (mutant) a read-deadline expiry does not arm the drain
TimeoutLeavesDrainOff == FALSE

\* io.rs 222: a read-deadline expiry arms the drain
NeedsDrainAfterTimeout == TRUE

\* (mutant) a read-deadline expiry is treated as a disconnect
BusAfterTimeoutDisconnects(b, sent) == EmitDisconnected(b, sent)

\* io.rs 220-224: a read-deadline expiry leaves the guard alone
BusAfterTimeout(b, sent) == b

\* whether the WriteAndRead the actor handled last ended in a read Timeout
Handled == { d \in Callers : trk[d].seq > 0 /\ Kind(call[d].op) = "WriteAndRead" }
LastReadTimedOut ==
    \E d \in Handled : /\ \A e \in Handled : trk[e].seq <= trk[d].seq
                        /\ slot[d] = SlotErr("Timeout")

\* the next position in the order the actor fulfils reply slots
NextSeq == Cardinality({ d \in Callers : trk[d].seq > 0 }) + 1

Fulfilled(t, b) == [t EXCEPT !.seq = NextSeq, !.discAtReply = Count(b, Disconnected),
                             !.cancelAtReply = cancel]

\* (mutant) the Shutdown arm acknowledges and stays in the loop
AfterShutdownContinues == "idle"

\* io.rs 145-146: the Shutdown arm ends with break
AfterShutdown == "exited"

\* io.rs 161-165: leave io_loop; rx is dropped with everything still queued,
\* which drops those requests' reply senders
ExitLoop(pc) ==
    /\ ~disconnected_sent => CanPublish(bus, subs)
    /\ apc' = pc
    /\ cur' = 0
    /\ bus' = ExitBus(bus, disconnected_sent)
    /\ queue' = << >>
    /\ UNCHANGED << portVars, buildVars, disconnected_sent, needs_drain,
                    cancel, tx_dropped, read_deadline, call,
                    clockVars, sideVars >>

DropQueued(sl, q) ==
    [d \in DOMAIN sl |-> IF \E i \in 1..Len(q) : q[i] = d THEN SlotDropped ELSE sl[d]]

\* (mutant) cancellation is raced against the read of the request in hand
CancelPolledWhileReading(pc) == pc \in {"idle", "read"}

\* io.rs 134-140: cancel.cancelled() is polled by the select at the head of
\* the loop and nowhere in handle_request
CancelPolled(pc) == pc = "idle"

\* io.rs 137-140: the cancel arm of the biased select
ActorCancelled ==
    /\ CancelPolled(apc) /\ cancel
    /\ ExitLoop("exited")
    /\ slot' = DropQueued(slot, queue)
    /\ UNCHANGED trk

\* (mutant) the select is not biased: recv() may win over a set cancel
RecvPolledAnyway(c) == TRUE

\* io.rs 134-139: biased select; recv() is polled only when cancelled() is
\* not ready
RecvPolled(c) == ~c

\* (mutant) the drain runs before a Write as well
DrainsAnyRequest(k, flag) == flag

\* io.rs 178, 190-194: only the WriteAndRead arm looks at needs_drain
Drains(k, flag) == k = "WriteAndRead" /\ flag

\* (mutant) recv() is polled again while a read of the request in hand is
\* still pending
LoopHeadOrReading(pc) == pc \in {"idle", "read"}

\* io.rs 133-134, 149: handle_request is awaited inside the loop body; the
\* select is reached again only when it has returned
LoopHead(pc) == pc = "idle"

\* io.rs 142-151: a request is received; Shutdown is acknowledged and ends
\* the loop, anything else goes to handle_request
ActorRecv ==
    /\ LoopHead(apc) /\ RecvPolled(cancel) /\ queue # << >>
    /\ LET i    == QueueNext(queue)
           r    == queue[i]
           rest == RemoveAt(queue, i)
       IN  IF Kind(call[r].op) = "Shutdown"
           THEN /\ ExitLoop(AfterShutdown)
                /\ slot' = [DropQueued(slot, rest) EXCEPT ![r] = SlotOk]
                /\ trk' = [trk EXCEPT ![r] = Fulfilled(@, bus)]
           ELSE /\ cur' = r
                /\ queue' = rest
                /\ apc' = IF Drains(Kind(call[r].op), needs_drain)
                          THEN "drain" ELSE "write"
                /\ trk' = [trk EXCEPT ![r].afterTimeout = LastReadTimedOut,
                                      ![r].stale = (read_buf # << >>)]
                /\ UNCHANGED << portVars, buildVars, disconnected_sent,
                                needs_drain, cancel, tx_dropped, read_deadline,
                                slot, call, bus, clockVars, sideVars >>

\* io.rs 152-155: recv() returns None: every sender is gone, nothing queued
ActorChannelClosed ==
    /\ apc = "idle" /\ ~cancel /\ queue = << >> /\ tx_dropped
    /\ ExitLoop("exited")
    /\ UNCHANGED << slot, trk >>

DrainWindow == DrainWindowMs \div DrainTickMs
DrainCutoff == DrainCutoffMs \div DrainTickMs

\* (mutant) the total window is never looked at
DrainWindowIgnored(d) == TRUE

\* io.rs 247-251: remaining = deadline - now; the loop goes on while it is
\* not zero
DrainWindowOpen(d) == d.on => d.el < DrainWindow

\* io.rs 252-253, 259: timeout(remaining.min(idle_cutoff), read) expired
DrainReadTimedOut(d) == d.on => (d.wait >= DrainCutoff \/ d.el >= DrainWindow)

\* io.rs 254-258: one read of drain_stale that returns bytes
ActorDrainRead ==
    /\ apc = "drain" /\ DrainWindowOpen(dr) /\ ~ReadFails /\ read_buf # << >>
    /\ read_buf' = Drop(read_buf, Min(DrainBuf, Len(read_buf)))
    /\ trk' = [trk EXCEPT ![cur].drained = TRUE]
    /\ dr' = [dr EXCEPT !.wait = 0]
    /\ UNCHANGED << write_log, closed, read_closed, buildVars, apc, cur,
                    disconnected_sent, needs_drain, queue, cancel, tx_dropped,
                    read_deadline, slot, call, bus, clockVars, subs, codec >>

\* (mutant) the flag survives the drain
DrainLeavesFlagSet == TRUE

\* io.rs 196: *needs_drain = false after drain_stale
NeedsDrainAfterDrain == FALSE

\* io.rs 259 and 194-197: a read that fails or stays idle for the cutoff ends
\* the drain; the flag is cleared
ActorDrainEnd ==
    /\ apc = "drain"
    /\ \/ ~DrainWindowOpen(dr)
       \/ ReadFails
       \/ read_buf = << >> /\ DrainReadTimedOut(dr)
    /\ needs_drain' = NeedsDrainAfterDrain
    /\ apc' = "write"
    /\ dr' = [dr EXCEPT !.el = 0, !.wait = 0]
    /\ UNCHANGED << portVars, buildVars, cur, disconnected_sent, queue, cancel,
                    tx_dropped, read_deadline, slot, trk, call, bus,
                    clockVars, subs, codec >>

\* drain_stale's clock advances by one step; a read that is waiting for bytes
\* does not wait beyond its timeout
DrainTick ==
    /\ dr.on /\ apc = "drain" /\ dr.el < DrainWindow
    /\ (read_buf = << >> /\ ~ReadFails) => dr.wait < DrainCutoff
    /\ dr' = [dr EXCEPT !.el = @ + 1,
                         !.wait = IF read_buf = << >> /\ ~ReadFails THEN @ + 1 ELSE @]
    /\ UNCHANGED << portVars, buildVars, apc, cur, disconnected_sent,
                    needs_drain, queue, cancel, tx_dropped, read_deadline,
                    slot, trk, call, bus, clockVars, subs, codec >>

\* (mutant) an I/O failure ends the loop
AfterFailureExits == "exited"

\* io.rs 188, 204-205, 218 and 149-151: after the reply handle_request
\* returns and io_loop goes round again
AfterFailure == "idle"

\* the I/O failure path of handle_request: Disconnected (once), then the reply
FailIo ==
    /\ ~disconnected_sent => CanPublish(bus, subs)
    /\ bus' = EmitDisconnected(bus, disconnected_sent)
    /\ disconnected_sent' = SentAfterFailure
    /\ slot' = [slot EXCEPT ![cur] = SlotErr("Io")]
    /\ trk' = [trk EXCEPT ![cur] = Fulfilled(@, BusAtReply(bus, bus'))]
    /\ apc' = AfterFailure
    /\ cur' = 0

\* io.rs 178-189 and 198-206: write_all of the request's bytes
ActorWrite ==
    /\ apc = "write"
    /\ IF closed
       THEN /\ FailIo
            /\ UNCHANGED << write_log, read_deadline >>
       ELSE /\ write_log' = WriteAll(write_log, Payload(call[cur].op).bytes)
            /\ IF Kind(call[cur].op) = "Write"
               THEN /\ slot' = [slot EXCEPT ![cur] = SlotOk]
                    /\ trk' = [trk EXCEPT ![cur] = [Fulfilled(@, bus) EXCEPT !.wrote = TRUE]]
                    /\ apc' = "idle"
                    /\ cur' = 0
                    /\ UNCHANGED read_deadline
               ELSE /\ trk' = [trk EXCEPT ![cur].wrote = TRUE]
                    /\ apc' = "read"
                    /\ read_deadline' = now + ReadSecs
                    /\ UNCHANGED << slot, cur >>
            /\ UNCHANGED << bus, disconnected_sent >>
    /\ UNCHANGED << read_buf, closed, read_closed, buildVars, needs_drain,
                    queue, cancel, tx_dropped, call, clockVars, sideVars >>

\* io.rs 208-211: read_line returns a line within the deadline
ActorReadLine ==
    /\ apc = "read" /\ LineReady
    /\ LET n == LineEnd(read_buf, 1)
       IN  /\ slot' = [slot EXCEPT ![cur] = SlotLine(Bytes(SubSeq(read_buf, 1, n)))]
           /\ trk' = [trk EXCEPT ![cur] =
                        [Fulfilled(@, bus) EXCEPT !.tags = Tags(SubSeq(read_buf, 1, n))]]
           /\ read_buf' = Drop(read_buf, n)
    /\ apc' = "idle"
    /\ cur' = 0
    /\ UNCHANGED << write_log, closed, read_closed, buildVars,
                    disconnected_sent, needs_drain, queue, cancel, tx_dropped,
                    read_deadline, call, bus, clockVars, sideVars >>

\* io.rs 212-219: read_line fails
ActorReadError ==
    /\ apc = "read" /\ ReadFails
    /\ FailIo
    /\ UNCHANGED << portVars, buildVars, needs_drain, queue, cancel,
                    tx_dropped, read_deadline, call, clockVars, sideVars >>

\* (mutant) the Timeout arm returns without sending the reply
TimeoutReplyForgotten == SlotEmpty

\* io.rs 223: reply.send(Err(Error::Timeout))
TimeoutReply == SlotErr("Timeout")

\* io.rs 220-224: the read deadline expires with no complete line; the bytes
\* read_line had taken are lost with it
ActorReadTimeout ==
    /\ apc = "read" /\ ~ReadFails /\ ~LineReady
    /\ (timed => now >= read_deadline)
    /\ read_buf' = << >>
    /\ needs_drain' = NeedsDrainAfterTimeout
    /\ bus' = BusAfterTimeout(bus, disconnected_sent)
    /\ slot' = [slot EXCEPT ![cur] = TimeoutReply]
    /\ trk' = [trk EXCEPT ![cur] = Fulfilled(@, bus')]
    /\ apc' = "idle"
    /\ cur' = 0
    /\ UNCHANGED << write_log, closed, read_closed, buildVars,
                    disconnected_sent, queue, cancel, tx_dropped,
                    read_deadline, call, clockVars, sideVars >>

----------------------------------------------------------------------------
\* io.rs: IoHandle::command / command_read / shutdown, and the facade on top

\* io.rs 51, 69, 89: the outer deadline of a call
OuterSecs(o) == IF Kind(o) = "Shutdown" THEN ShutdownSecs ELSE CommandSecs

\* (mutant) a failed send() is taken for success
SendFailedIgnored == ResOk

\* io.rs 49, 67: send() fails, the receiver is gone
SendFailed == ResErr("NotConnected")

\* io.rs 53, 71: the reply sender was dropped
ReplyDropped == ResErr("NotConnected")

\* io.rs 54, 72: the outer deadline expired
DeadlineExpired == ResErr("Timeout")

\* (mutant) RxChanged is sent without the mode of the call
ChangeEventNoMode(o) ==
    CASE o.m = "set_tx" -> Ev("TxChanged", o.a, 0)
      [] o.m = "set_rx" -> Ev("RxChanged", o.a, 0)
      [] OTHER          -> Ev("AuxChanged", o.a, o.b)

\* device.rs 34, 41, 48: the event a successful set_* call sends
ChangeEvent(o) ==
    CASE o.m = "set_tx" -> Ev("TxChanged", o.a, 0)
      [] o.m = "set_rx" -> Ev("RxChanged", o.a, o.b)
      [] OTHER          -> Ev("AuxChanged", o.a, o.b)

\* device.rs 31-73 after the await: what the call returns for the value v the
\* caller took from its reply slot
\* what device_name and query_aux parse out of each line a read_line can
\* hand to the facade (device.rs 55, 61)
NameOfLine == [l \in DeviceLines |-> parse_name_response(l)]
AuxOfLine == [l \in DeviceLines |-> parse_aux_response(l)]

\* device.rs 63-65: the message of the port-mismatch error
MismatchMsg(port, returned_port) ==
    << 65, 85, 88, 32, 112, 111, 114, 116, 32, 109, 105, 115, 109, 97, 116, 99, 104, 58, 32, 114, 101, 113, 117, 101, 115, 116, 101, 100, 32, 112, 111, 114, 116, 32 >>
        \o Decimal(port)
        \o << 44, 32, 103, 111, 116, 32, 112, 111, 114, 116, 32 >>
        \o Decimal(returned_port)

\* (mutant) the returned port is not compared with the requested one
AuxResultUnchecked(port, r) ==
    IF ~r.ok THEN ResErr("Protocol") ELSE Res("value", "", r.val, << >>)

\* device.rs 61-67: the parse result r = [ok, port, val] of the response,
\* then the port comparison.  The messages of the parser's own Protocol
\* errors are not modelled.
AuxResult(port, r) ==
    IF ~r.ok THEN ResErr("Protocol")
    ELSE IF r.port # port
         THEN Res("err", "Protocol", 0, MismatchMsg(port, r.port))
         ELSE Res("value", "", r.val, << >>)

Facade(o, v) ==
    CASE v.k = "err"  -> ResErr(v.e)
      [] v.k = "ok"   -> ResOk
      [] v.k = "line" ->
            IF o.m = "device_name"
            THEN Res("name", "", 0, NameOfLine[v.line])
            ELSE AuxResult(o.a, AuxOfLine[v.line])
      [] OTHER        -> NoRes

Done(c, res, via) ==
    call' = [call EXCEPT ![c].st = "done", ![c].res = res, ![c].via = via,
                         ![c].doneAt = now]

\* (mutant) shutdown gives up without setting the cancel signal
ShutdownNeverCancels(o) == FALSE

\* io.rs 85, 92, 96: self.cancel.cancel() on every path of shutdown that did
\* not get the acknowledgement; command and command_read have no such line
ShutdownCancels(o) == Kind(o) = "Shutdown"

\* io.rs 108 and 43-48: send() on the bounded channel waits while it is full
SendWaits(q) == Len(q) >= ChannelCap

\* a caller starts a call: the encoder, then tx.send().  Callers are
\* interchangeable, so they start in the order of their numbers.
Call(c, o) ==
    /\ bpc = "built" /\ ~tx_dropped
    /\ call[c].st = "idle"
    /\ \A d \in Callers : d < c => call[d].st # "idle"
    /\ IF ~Payload(o).ok
       THEN /\ call' = [call EXCEPT ![c].st = "done", ![c].op = o,
                                    ![c].res = ResErr("InvalidParameter"),
                                    ![c].via = "encode", ![c].doneAt = now]
            /\ UNCHANGED << queue, cancel >>
       ELSE IF apc = "exited"
       THEN /\ call' = [call EXCEPT ![c].st = "done", ![c].op = o,
                                    ![c].res = IF Kind(o) = "Shutdown" THEN ResOk
                                               ELSE SendFailed,
                                    ![c].via = "sendfail", ![c].doneAt = now]
            /\ cancel' = (cancel \/ ShutdownCancels(o))
            /\ UNCHANGED queue
       ELSE IF SendWaits(queue)
       THEN /\ call' = [call EXCEPT ![c].st = "sending", ![c].op = o]
            /\ UNCHANGED << queue, cancel >>
       ELSE /\ queue' = Append(queue, c)
            /\ call' = [call EXCEPT ![c].st = "waiting", ![c].op = o,
                                    ![c].deadline = now + OuterSecs(o)]
            /\ UNCHANGED cancel
    /\ UNCHANGED << portVars, buildVars, apc, cur, disconnected_sent,
                    needs_drain, tx_dropped, read_deadline, slot, trk,
                    bus, clockVars, sideVars >>

\* io.rs 43-49, 61-67, 79-87: a send() that found the channel full completes
\* when the actor has taken a request out (waiting senders are served in the
\* order they arrived), or fails when the actor has dropped the receiver.  The
\* timeout of lines 51, 69, 89 is created only after send() has returned.
CallerSend(c) ==
    /\ call[c].st = "sending"
    /\ \A d \in Callers : d < c => call[d].st # "sending"
    /\ IF apc = "exited"
       THEN /\ Done(c, IF Kind(call[c].op) = "Shutdown" THEN ResOk ELSE SendFailed,
                    "sendfail")
            /\ cancel' = (cancel \/ ShutdownCancels(call[c].op))
            /\ UNCHANGED queue
       ELSE /\ ~SendWaits(queue)
            /\ queue' = Append(queue, c)
            /\ call' = [call EXCEPT ![c].st = "waiting",
                                    ![c].deadline = now + OuterSecs(call[c].op)]
            /\ UNCHANGED cancel
    /\ UNCHANGED << portVars, buildVars, apc, cur, disconnected_sent,
                    needs_drain, tx_dropped, read_deadline, slot, trk,
                    bus, clockVars, sideVars >>

\* io.rs 52-53, 70-71, 90-94 and device.rs: what the call returns once its
\* await on the reply slot ends with the value v or with a dropped sender
Returned(o, v) ==
    IF v.k = "dropped"
    THEN (IF Kind(o) = "Shutdown" THEN ResOk ELSE ReplyDropped)
    ELSE Facade(o, v)

\* (mutant) the event is sent whatever the reply says
PublishesOnAnyReply(o, v) == o.m \in {"set_tx", "set_rx", "set_aux"}

\* device.rs 33-34, 40-41, 47-48: `self.io.command(data).await?` returns
\* early on an error; the event is sent by the calling task after an Ok
Publishes(o, v) == v.k = "ok" /\ o.m \in {"set_tx", "set_rx", "set_aux"}

\* the caller's await on its reply slot ends with a value or a dropped sender
CallerReply(c) ==
    /\ call[c].st = "waiting" /\ slot[c].k # "empty"
    /\ Done(c, Returned(call[c].op, slot[c]),
            IF slot[c].k = "dropped" THEN "dropped" ELSE "reply")
    /\ cancel' = (cancel \/ (slot[c].k = "dropped" /\ ShutdownCancels(call[c].op)))
    /\ Publishes(call[c].op, slot[c]) => CanPublish(bus, subs)
    /\ bus' = IF Publishes(call[c].op, slot[c])
              THEN Append(bus, ChangeEvent(call[c].op)) ELSE bus
    /\ trk' = [trk EXCEPT ![c].ev = IF Publishes(call[c].op, slot[c])
                                    THEN Len(bus') ELSE @]
    /\ UNCHANGED << portVars, buildVars, apc, cur, disconnected_sent,
                    needs_drain, queue, tx_dropped, read_deadline, slot,
                    clockVars, sideVars >>

\* (mutant) the reply is awaited without a deadline
DeadlineNever(c) == FALSE

\* io.rs 51, 69, 89: tokio::time::timeout around the await of the reply
DeadlineDue(c) == timed => now >= call[c].deadline

\* the caller's outer deadline expires before the slot is fulfilled
CallerDeadline(c) ==
    /\ call[c].st = "waiting" /\ slot[c].k = "empty"
    /\ DeadlineDue(c)
    /\ Done(c, IF Kind(call[c].op) = "Shutdown" THEN ResOk ELSE DeadlineExpired,
            "deadline")
    /\ cancel' = (cancel \/ ShutdownCancels(call[c].op))
    /\ UNCHANGED << portVars, buildVars, apc, cur, disconnected_sent,
                    needs_drain, queue, tx_dropped, read_deadline, slot, trk,
                    bus, clockVars, sideVars >>

\* the OtrspDevice is dropped (no call is borrowing it): the only sender of
\* the channel goes away
DropDevice ==
    /\ bpc = "built" /\ ~tx_dropped
    /\ \A c \in Callers : call[c].st # "waiting"
    /\ tx_dropped' = TRUE
    /\ UNCHANGED << portVars, buildVars, apc, cur, disconnected_sent,
                    needs_drain, queue, cancel, read_deadline, slot, trk,
                    call, bus, clockVars, sideVars >>

----------------------------------------------------------------------------
\* Time (timed specification): a second passes only when nothing is due

ActorDue ==
    \/ apc \in {"drain", "write"}
    \/ apc = "idle" /\ (cancel \/ queue # << >> \/ tx_dropped)
    \/ apc = "read" /\ (ReadFails \/ LineReady \/ now >= read_deadline)

CallerDue(c) ==
    call[c].st = "waiting" /\ (slot[c].k # "empty" \/ now >= call[c].deadline)

Tick ==
    /\ timed /\ now < MaxTime
    /\ ~ActorDue
    /\ \A c \in Callers : ~CallerDue(c)
    /\ now' = now + 1
    /\ UNCHANGED << portVars, buildVars, apc, cur, disconnected_sent,
                    needs_drain, queue, cancel, tx_dropped, read_deadline,
                    slot, trk, call, bus, timed, sideVars >>

----------------------------------------------------------------------------
\* The event bus seen from a receiver (tokio broadcast, capacity 64), and a
\* caller that calls again

\* (mutant) a new receiver is handed the events from the first one on
SubscribeAtStart(len) == 0

\* device.rs 76: event_tx.subscribe() gives a receiver that sees only the
\* events sent after the call (builder.rs 87-88: the receiver created with
\* the channel is dropped at once, so Connected is sent to nobody)
SubscribeAt(len) == len

\* device.rs 75-77: subscribe() hands out a receiver that starts at the tail
Subscribe(r) ==
    /\ bpc = "built" /\ ~subs[r].on /\ Len(bus) <= SubscribeBy
    /\ subs' = [subs EXCEPT ![r] = [NoSub EXCEPT !.on = TRUE,
                                                  !.at = SubscribeAt(Len(bus)),
                                                  !.next = SubscribeAt(Len(bus)) + 1]]
    /\ UNCHANGED << portVars, buildVars, apc, cur, disconnected_sent, needs_drain,
                    queue, cancel, tx_dropped, read_deadline, slot, trk, call,
                    bus, clockVars, codec, dr >>

\* (mutant) a receiver is handed the newest event
NextReadNewest(n, len) == len

\* Receiver::recv returns the event at the receiver's own position
NextRead(n, len) == n

\* rx.recv() on a receiver with unread events: the next event, or, when more
\* than the capacity are unread, Lagged(n) and a jump to the oldest one kept
SubRecv(r) ==
    /\ subs[r].on /\ subs[r].next <= Len(bus)
    /\ IF Len(bus) - (subs[r].next - 1) > BusCap
       THEN subs' = [subs EXCEPT
                        ![r].missed = @ + (Len(bus) - BusCap + 1) - subs[r].next,
                        ![r].next = Len(bus) - BusCap + 1]
       ELSE subs' = [subs EXCEPT
                        ![r].got = @ + 1,
                        ![r].last = NextRead(subs[r].next, Len(bus)),
                        ![r].next = NextRead(subs[r].next, Len(bus)) + 1]
    /\ UNCHANGED << portVars, buildVars, apc, cur, disconnected_sent, needs_drain,
                    queue, cancel, tx_dropped, read_deadline, slot, trk, call,
                    bus, clockVars, codec, dr >>

\* a caller whose call has returned, and whose request the actor no longer
\* holds, makes its next call with a fresh request
CallerAgain(c) ==
    /\ call[c].st = "done" /\ cur # c /\ Len(bus) < MaxEvents
    /\ \A i \in 1..Len(queue) : queue[i] # c
    /\ call' = [call EXCEPT ![c] = NoCall]
    /\ slot' = [slot EXCEPT ![c] = SlotEmpty]
    /\ trk' = [trk EXCEPT ![c] = NoTrk]
    /\ UNCHANGED << portVars, buildVars, apc, cur, disconnected_sent, needs_drain,
                    queue, cancel, tx_dropped, read_deadline, bus, clockVars,
                    sideVars >>

----------------------------------------------------------------------------
\* protocol.rs as a pipeline: encode_aux, parse_aux_response on the bytes it
\* produced, encode_aux on what the parser returned

restOfState == << portVars, buildVars, apc, cur, disconnected_sent, needs_drain,
                  queue, cancel, tx_dropped, read_deadline, slot, trk, call,
                  bus, clockVars, subs, dr >>

CodecEncode ==
    /\ codec.pc = "in"
    /\ codec' = [codec EXCEPT !.pc = "wire",
                               !.wire = encode_aux(codec.port, codec.value)]
    /\ UNCHANGED restOfState

CodecParse ==
    /\ codec.pc = "wire" /\ codec.wire.ok
    /\ codec' = [codec EXCEPT !.pc = "parsed",
                               !.parsed = parse_aux_response(codec.wire.bytes)]
    /\ UNCHANGED restOfState

CodecEncodeAgain ==
    /\ codec.pc = "parsed" /\ codec.parsed.ok
    /\ codec' = [codec EXCEPT !.pc = "again",
                               !.again = encode_aux(codec.parsed.port, codec.parsed.val)]
    /\ UNCHANGED restOfState

\* the lines handed to the parsers: optional leading blank, a prefix, a port
\* character, a value text, a line ending
Leads      == { << >>, << 32 >> }
Prefixes   == { << 65, 85, 88 >>, << 78, 79, 84, 65, 85, 88 >>, << >>,
                << 65, 85 >>, << 97, 117, 120 >>, << 78, 65, 77, 69 >> }
PortTexts  == { << >>, << 48 >>, << 49 >>, << 57 >>, << 97 >>, << 47 >>, << 58 >> }
ValueTexts == { << >>, << 48 >>, << 52 >>, << 50, 53, 53 >>, << 50, 53, 54 >>,
                << 48, 48, 55 >>, << 43, 53 >>, << 45, 49 >>, << 97, 98, 99 >>,
                << 57, 57, 57 >>, << 49, 32, 50 >>, << 32, 52 >>,
                << 83, 79, 50, 82 >> }
Trails     == { << >>, << CR >>, << CR, LF >>, << LF >>, << 32, CR >>,
                << CR, 32 >> }

TestLines ==
    { a \o b \o c \o d \o e :
        a \in Leads, b \in Prefixes, c \in PortTexts, d \in ValueTexts,
        e \in Trails }

\* parse_aux_response applied to a line
CodecParseAux ==
    /\ codec.pc = "line"
    /\ codec' = [codec EXCEPT !.pc = "aux", !.parsed = parse_aux_response(codec.line)]
    /\ UNCHANGED restOfState

\* parse_name_response applied to a line
CodecParseName ==
    /\ codec.pc = "line"
    /\ codec' = [codec EXCEPT !.pc = "name", !.text = parse_name_response(codec.line)]
    /\ UNCHANGED restOfState

\* every valid input of the encoders without a value range of their own
EncOps ==
    { Op("set_tx", r, 0) : r \in 1..2 }
        \cup { Op("set_rx", r, m) : r \in 1..2, m \in 0..2 }
        \cup { Op("query_aux", p, 0) : p \in 0..MaxPort }
        \cup { Op("device_name", 0, 0) }

\* encode_tx, encode_rx, encode_query_name, encode_query_aux applied to the
\* arguments of a call
CodecEncodeOp ==
    /\ codec.pc = "op"
    /\ codec' = [codec EXCEPT !.pc = "enc", !.enc = Payload(codec.op)]
    /\ UNCHANGED restOfState

\* encode_raw applied to a text
CodecEncodeRaw ==
    /\ codec.pc = "line"
    /\ codec' = [codec EXCEPT !.pc = "raw", !.enc = Enc(encode_raw(codec.line))]
    /\ UNCHANGED restOfState

----------------------------------------------------------------------------
\* Specifications

\* a fresh MockPort, n callers that have not called, nothing built
Fresh(n) ==
    /\ read_buf = << >> /\ write_log = << >>
    /\ closed = FALSE /\ read_closed = FALSE
    /\ name = [text |-> << >>, how |-> "none"]
    /\ cur = 0
    /\ disconnected_sent = FALSE /\ needs_drain = FALSE
    /\ queue = << >> /\ cancel = FALSE /\ tx_dropped = FALSE
    /\ read_deadline = 0
    /\ slot = [c \in 1..n |-> SlotEmpty]
    /\ trk = [c \in 0..n |-> NoTrk]
    /\ call = [c \in 1..n |-> NoCall]
    /\ now = 0

\* before build_with_port
InitStart(n) == Fresh(n) /\ bpc = "start" /\ apc = "none" /\ bus = << >>

\* no receiver yet, nothing in the codec
Quiet == subs = [r \in 1..NumSubs |-> NoSub] /\ codec = NoCodec /\ dr = NoDrain

\* after OtrspBuilder::new(..).query_name(false).build_with_port(MockPort::new()):
\* nothing written, Connected sent, the actor at the head of its loop
InitBuilt(n) == Fresh(n) /\ bpc = "built" /\ apc = "idle" /\ bus = << Connected >>

\* the three Request variants: a Write, a WriteAndRead, a Shutdown
CoreOps == { Op("set_tx", 1, 0), Op("query_aux", 1, 0), Op("close", 0, 0) }

\* the calls made on a device whose build queried the name
BuildOps == { Op("query_aux", 1, 0), Op("close", 0, 0) }

Callbacks ==
    \/ \E c \in Callers : CallerReply(c)
    \/ \E c \in Callers : CallerDeadline(c)
    \/ DropDevice

Actor ==
    \/ ActorCancelled
    \/ ActorRecv
    \/ ActorChannelClosed
    \/ ActorDrainRead
    \/ ActorDrainEnd
    \/ ActorWrite
    \/ ActorReadLine
    \/ ActorReadError
    \/ ActorReadTimeout

Device ==
    \/ \E c \in Callers : \E l \in Responses(call[c].op) : DeviceRespond(c, l)
    \/ PortClose
    \/ PortCloseRead

\* the link actor and its callers on a built device
Init == InitBuilt(NumCallers) /\ timed = FALSE /\ Quiet

Next ==
    \/ \E c \in Callers : \E o \in CoreOps : Call(c, o)
    \/ Callbacks
    \/ Actor
    \/ Device

Spec == Init /\ [][Next]_vars

\* the same on a link that stays up, with a clock: deadlines expire when due
InitTimed == InitBuilt(TimedCallers) /\ timed = TRUE /\ Quiet

NextTimed ==
    \/ \E c \in Callers : \E o \in CoreOps : Call(c, o)
    \/ \E c \in Callers : CallerReply(c)
    \/ \E c \in Callers : CallerDeadline(c)
    \/ ActorCancelled
    \/ ActorRecv
    \/ ActorDrainRead
    \/ ActorDrainEnd
    \/ ActorWrite
    \/ ActorReadLine
    \/ ActorReadTimeout
    \/ \E c \in Callers : \E l \in Responses(call[c].op) : DeviceRespond(c, l)
    \/ Tick

SpecTimed == InitTimed /\ [][NextTimed]_vars

\* the builder, then calls on the device it built
InitBuild == InitStart(BuildCallers) /\ timed = FALSE /\ Quiet

NextBuild ==
    \/ \E q \in BOOLEAN : BuildStart(q)
    \/ BuildRead
    \/ DeviceRespond(0, NameLine)
    \/ \E c \in Callers : \E o \in BuildOps : Call(c, o)
    \/ Callbacks
    \/ Actor
    \/ Device

SpecBuild == InitBuild /\ [][NextBuild]_vars

\* every method of the facade, with the callers' timers and wake-ups fair
InitFacade == InitBuilt(LiveCallers) /\ timed = FALSE /\ Quiet

NextFacade ==
    \/ \E c \in Callers : \E o \in Ops : Call(c, o)
    \/ \E c \in Callers : \E l \in Mismatched(call[c].op) : DeviceRespond(c, l)
    \/ Callbacks
    \/ Actor
    \/ Device

SpecFacade ==
    /\ InitFacade /\ [][NextFacade]_vars
    /\ \A c \in 1..LiveCallers : WF_vars(CallerReply(c) \/ CallerDeadline(c))

\* one caller switching TX again and again, then closing, with a receiver
\* that subscribes when it likes and reads as slowly as it likes
BusOps == { Op("set_tx", 1, 0), Op("close", 0, 0) }

InitBus == InitBuilt(BusCallers) /\ timed = FALSE /\ Quiet

NextBus ==
    \/ \E c \in Callers : \E o \in BusOps : Call(c, o)
    \/ \E c \in Callers : CallerReply(c)
    \/ \E c \in Callers : CallerAgain(c)
    \/ ActorRecv
    \/ ActorWrite
    \/ PortClose
    \/ \E r \in DOMAIN subs : Subscribe(r)
    \/ \E r \in DOMAIN subs : SubRecv(r)

SpecBus == InitBus /\ [][NextBus]_vars

\* two queries on a device that chatters: the first times out, the second
\* runs drain_stale with its clock, and the actor and the clock are fair
DrainOps == { Op("query_aux", 1, 0) }

InitDrain ==
    /\ InitBuilt(DrainCallers) /\ timed = FALSE
    /\ subs = [r \in 1..NumSubs |-> NoSub] /\ codec = NoCodec
    /\ dr = [NoDrain EXCEPT !.on = TRUE]

NextDrain ==
    \/ \E c \in Callers : \E o \in DrainOps : Call(c, o)
    \/ \E c \in Callers : CallerReply(c)
    \/ ActorRecv
    \/ ActorDrainRead
    \/ ActorDrainEnd
    \/ ActorWrite
    \/ ActorReadLine
    \/ ActorReadError
    \/ ActorReadTimeout
    \/ DrainTick
    \/ DeviceFeed
    \/ \E c \in Callers : \E l \in Responses(call[c].op) : DeviceRespond(c, l)
    \/ PortCloseRead

SpecDrain ==
    /\ InitDrain /\ [][NextDrain]_vars
    /\ WF_vars(ActorDrainRead) /\ WF_vars(ActorDrainEnd) /\ WF_vars(DrainTick)

\* a burst of calls that fills the channel while the actor is not scheduled:
\* as many set_tx as the channel holds, from callers that are still waiting,
\* then two more calls, whose callers are followed to their return and are
\* fair (the actor is not: it may be starved)
LateCallers == (ChannelCap + 1)..FullCallers

InitFull == InitBuilt(FullCallers) /\ timed = FALSE /\ Quiet

NextFull ==
    \/ \E c \in 1..ChannelCap : Call(c, Op("set_tx", 1, 0))
    \/ \E c \in LateCallers : \E o \in BusOps : Call(c, o)
    \/ \E c \in LateCallers : CallerSend(c)
    \/ \E c \in LateCallers : CallerReply(c)
    \/ \E c \in LateCallers : CallerDeadline(c)
    \/ ActorCancelled
    \/ ActorRecv
    \/ ActorWrite

SpecFull ==
    /\ InitFull /\ [][NextFull]_vars
    /\ \A c \in LateCallers :
          WF_vars(CallerSend(c) \/ CallerReply(c) \/ CallerDeadline(c))

\* the builder, two concurrent callers that select a TX radio or close, and
\* a receiver
EventOps == { Op("set_tx", 1, 0), Op("set_tx", 2, 0), Op("close", 0, 0) }

InitEvents == InitStart(EventCallers) /\ timed = FALSE /\ Quiet

NextEvents ==
    \/ \E q \in BOOLEAN : BuildStart(q)
    \/ BuildRead
    \/ DeviceRespond(0, NameLine)
    \/ \E c \in Callers : \E o \in EventOps : Call(c, o)
    \/ \E c \in Callers : CallerReply(c)
    \/ ActorRecv
    \/ ActorWrite
    \/ PortClose
    \/ \E r \in DOMAIN subs : Subscribe(r)
    \/ \E r \in DOMAIN subs : SubRecv(r)

SpecEvents == InitEvents /\ [][NextEvents]_vars

\* queries on a device that ends every response with CR LF and answers
\* every query before the read deadline
CrLfOps == { Op("device_name", 0, 0), Op("query_aux", 1, 0) }

InitCrLf == InitBuilt(CrLfCallers) /\ timed = FALSE /\ Quiet

NextCrLf ==
    \/ \E c \in Callers : \E o \in CrLfOps : Call(c, o)
    \/ \E c \in Callers : CallerReply(c)
    \/ ActorRecv
    \/ ActorWrite
    \/ ActorReadLine
    \/ \E c \in Callers : \E l \in CrLfResponses(call[c].op) : DeviceRespond(c, l)

SpecCrLf == InitCrLf /\ [][NextCrLf]_vars

\* the codec alone: every valid (port, value) goes through the pipeline
InitCodec ==
    /\ InitStart(0) /\ timed = FALSE
    /\ subs = [r \in 1..NumSubs |-> NoSub] /\ dr = NoDrain
    /\ \/ codec \in { [NoCodec EXCEPT !.pc = "in", !.port = p, !.value = v] :
                         p \in 0..MaxPort, v \in 0..MaxU8 }
       \/ codec \in { [NoCodec EXCEPT !.pc = "line", !.line = l] : l \in TestLines }
       \/ codec \in { [NoCodec EXCEPT !.pc = "op", !.op = o] : o \in EncOps }

NextCodec ==
    \/ CodecEncode
    \/ CodecParse
    \/ CodecEncodeAgain
    \/ CodecParseAux
    \/ CodecParseName
    \/ CodecEncodeOp
    \/ CodecEncodeRaw

SpecCodec == InitCodec /\ [][NextCodec]_vars

----------------------------------------------------------------------------
\* Properties

Enqueued(c) == call[c].st \in {"waiting", "done"} /\ call[c].via \notin {"encode", "sendfail"}
IsDone(c)   == call[c].st = "done"
Answered(c) == trk[c].seq > 0

\* C1: over the whole life of the actor, however many requests fail with an
\* I/O error and however the actor ends, at most one Disconnected is
\* published on the event bus.
AtMostOneDisconnected == DiscCount <= 1

\* two requests failed with Io, the actor has ended, one Disconnected
TwoFailuresOneDisconnected ==
    /\ apc = "exited"
    /\ Cardinality({ c \in Callers : slot[c] = SlotErr("Io") }) >= 2
    /\ DiscCount = 1

\* C2: when the actor has terminated (Shutdown, cancel, or channel closure),
\* Disconnected has been published: exactly one per terminated actor.
DisconnectedOnExit == apc = "exited" => DiscCount = 1

\* the actor ended on channel closure with no failure before: the event was
\* its last action
ExitPublishedDisconnected ==
    /\ apc = "exited" /\ tx_dropped /\ ~cancel /\ ~disconnected_sent
    /\ \A c \in Callers : call[c].op.m # "close"
    /\ DiscCount = 1

\* C3: the byte log of the stream is exactly the concatenation of the whole
\* payloads of the requests whose write succeeded, in the order they were
\* enqueued (callers enqueue in the order of their numbers).
WrittenPayloads ==
    [c \in 1..Cardinality(Callers) |->
        IF trk[c].wrote THEN Payload(call[c].op).bytes ELSE << >>]

WriteLogIsConcatenation == write_log = Concat(WrittenPayloads)

\* two different payloads were written, and a later request's write failed
TwoPayloadsWritten ==
    \E a, b, d \in Callers :
        /\ a < b /\ b < d
        /\ trk[a].wrote /\ trk[b].wrote
        /\ call[a].op # call[b].op
        /\ slot[d] = SlotErr("Io") /\ ~trk[d].wrote

DrainKeepsStaleOut ==
    \A c \in Callers :
        (slot[c].k = "line" /\ trk[c].afterTimeout /\ ~trk[c].intr) =>
            trk[c].tags = {c}

\* a stale response was buffered at dequeue, was drained, and the query got
\* its own line
StaleDrainedOwnLineReturned ==
    \E c \in Callers :
        /\ slot[c].k = "line" /\ trk[c].afterTimeout /\ ~trk[c].intr
        /\ trk[c].stale /\ trk[c].drained
        /\ trk[c].tags = {c}

\* C6: after a build whose name query timed out, with the late NAME response
\* buffered when the first query_aux is dequeued and that query's own AUX
\* response arriving while the actor reads for it, query_aux returns the
\* value of the AUX response.
FirstQuery(c) == \A d \in Callers : d < c => Kind(call[d].op) # "WriteAndRead"

QueryAfterBuildTimeoutClean ==
    \A c \in Callers :
        ( /\ name.how = "timeout"
          /\ IsDone(c) /\ call[c].via = "reply"
          /\ call[c].op.m = "query_aux" /\ FirstQuery(c)
          /\ trk[c].stale /\ trk[c].inTime
          /\ ~closed /\ ~read_closed )
        => call[c].res = Res("value", "", 4, << >>)

\* C7: a request whose write or line read fails is answered with Io, and
\* Disconnected is on the bus by the time that reply is fulfilled, so a
\* caller that has seen the Io error finds Disconnected published.
IoFailureRepliedAfterDisconnected ==
    \A c \in Callers :
        /\ slot[c] = SlotErr("Io") => trk[c].discAtReply = 1
        /\ (IsDone(c) /\ call[c].via = "reply" /\ slot[c] = SlotErr("Io")) =>
               (call[c].res = ResErr("Io") /\ DiscCount = 1)

\* a query's line read failed after its write succeeded; the caller has the
\* Io error and the Disconnected sent for it
ReadFailureSeenByCaller ==
    \E c \in Callers :
        /\ IsDone(c) /\ call[c].res = ResErr("Io")
        /\ trk[c].wrote /\ Kind(call[c].op) = "WriteAndRead"
        /\ trk[c].discAtReply = 1
        /\ bus[Len(bus)] = Disconnected

\* C8: the step that answers a WriteAndRead with Timeout sets needs_drain,
\* publishes nothing, leaves the disconnected guard as it was, and leaves
\* the actor at the head of its loop.
ReadTimeoutKeepsLinkUp ==
    [][ \A c \in DOMAIN slot :
          (slot[c].k = "empty" /\ slot'[c] = SlotErr("Timeout")) =>
              /\ needs_drain'
              /\ bus' = bus
              /\ disconnected_sent' = disconnected_sent
              /\ apc' = "idle" ]_vars

\* after a read Timeout the actor answered a later request with success, and
\* nothing was published as Disconnected
AnsweredAfterTimeout ==
    \E a, b \in Callers :
        /\ slot[a] = SlotErr("Timeout")
        /\ trk[b].seq > trk[a].seq /\ slot[b].k \in {"ok", "line"}
        /\ ~disconnected_sent /\ DiscCount = 0

\* C9: an expired outer deadline of command / command_read is reported as
\* NotConnected, and Timeout only when the actor reported its read deadline.
OuterDeadlineIsNotConnected ==
    \A c \in Callers :
        (IsDone(c) /\ Kind(call[c].op) # "Shutdown") =>
            /\ call[c].via = "deadline" => call[c].res = ResErr("NotConnected")
            /\ call[c].res = ResErr("Timeout") =>
                   (call[c].via = "reply" /\ slot[c] = SlotErr("Timeout"))

\* C10: every call that waits for the actor returns, with one typed outcome
\* that never changes afterwards, whatever the actor does or fails to do.
Typed(r) ==
    \/ r.k \in {"ok", "name", "value"}
    \/ r.k = "err" /\ r.e \in {"InvalidParameter", "Protocol", "Timeout", "Io",
                               "NotConnected"}

InQueue(c) == \E i \in 1..Len(queue) : queue[i] = c
SlotSent(v) ==
    \/ v.k \in {"ok", "line"}
    \/ v.k = "err" /\ v.e \in {"Io", "Timeout"}

\* C11 as stated: every enqueued request has its reply slot fulfilled by the
\* actor, also the requests still queued when the actor terminates.
EveryEnqueuedFulfilled ==
    \A c \in Callers :
        (Enqueued(c) /\ apc = "exited") => SlotSent(slot[c])

\* C11 amended: every request the actor takes off the channel has its reply
\* slot sent on exactly once, with success or a typed error, before the
\* actor takes the next one; a request still queued when the actor
\* terminates is never answered: its slot is dropped with the channel.
DequeuedFulfilledOnce ==
    /\ [](\A c \in Callers :
            /\ (Enqueued(c) /\ ~InQueue(c) /\ cur # c) => slot[c].k # "empty"
            /\ slot[c].k # "empty" => (SlotSent(slot[c]) \/ slot[c].k = "dropped")
            /\ SlotSent(slot[c]) <=> Answered(c))
    /\ [][ \A c \in DOMAIN slot :
            /\ slot[c].k # "empty" => slot'[c] = slot[c]
            /\ (cur = c /\ cur' # c) => SlotSent(slot'[c])
            /\ (InQueue(c) /\ ~InQueue(c)') =>
                   \/ cur' = c /\ slot'[c].k = "empty"
                   \/ queue[1] = c /\ slot'[c] = SlotOk
                   \/ slot'[c].k = "dropped" /\ apc' = "exited"
            /\ (slot[c].k = "empty" /\ slot'[c].k = "dropped") =>
                   (InQueue(c) /\ apc' = "exited") ]_vars

\* the actor ended having answered one request and dropped a queued one
AnsweredOneDroppedOne ==
    \E a, b \in Callers :
        /\ apc = "exited"
        /\ SlotSent(slot[a]) /\ slot[a].k = "err"
        /\ slot[b].k = "dropped" /\ ~Answered(b)

\* C12: a dequeued Shutdown is acknowledged with success and ends the loop;
\* a terminated actor stays terminated, takes no request, answers none,
\* writes nothing and consumes nothing of the stream, so no request enqueued
\* behind the Shutdown is ever written.
TerminatedIsAbsorbing ==
    /\ [](\A a, b \in Callers :
            ( /\ a < b /\ Enqueued(b)
              /\ Kind(call[a].op) = "Shutdown" /\ slot[a] = SlotOk ) =>
                (~trk[b].wrote /\ ~Answered(b)))
    /\ [][ ( /\ apc = "idle" /\ ~cancel /\ queue # << >>
              /\ Kind(call[queue[1]].op) = "Shutdown"
              /\ Len(queue') < Len(queue) ) =>
                 (slot'[queue[1]] = SlotOk /\ apc' = "exited") ]_vars
    /\ [][ apc = "exited" =>
              ( /\ apc' = "exited" /\ queue' = << >> /\ cur' = 0
                /\ slot' = slot
                /\ write_log' = write_log
                /\ IsPrefix(read_buf, read_buf') ) ]_vars

\* a Shutdown was acknowledged while a command enqueued behind it was
\* waiting; that command was dropped and none of its bytes were written
CommandBehindShutdownDropped ==
    \E a, b \in Callers :
        /\ a < b /\ apc = "exited"
        /\ Kind(call[a].op) = "Shutdown" /\ slot[a] = SlotOk
        /\ Kind(call[b].op) # "Shutdown" /\ slot[b].k = "dropped"
        /\ ~trk[b].wrote /\ IsDone(b)

\* the close() calls made so far
Closes == { c \in Callers : call[c].op.m = "close" /\ call[c].st # "idle" }

\* C13: however many times close() is called, one after another or at the
\* same time, every call returns Ok, there is never a second Disconnected
\* (exactly one once the actor has ended), and no step of a repeated call
\* writes to the stream or publishes an event.
ShutdownIdempotent ==
    /\ [](Cardinality(Closes) >= 2 =>
            /\ DiscCount <= 1
            /\ apc = "exited" => DiscCount = 1
            /\ \A c \in Closes : IsDone(c) => call[c].res = ResOk)
    /\ [][ \A c \in DOMAIN call :
            ( /\ call'[c] # call[c] /\ call'[c].op.m = "close"
              /\ \E d \in Closes : d < c ) =>
                (write_log' = write_log /\ bus' = bus) ]_vars

\* after an I/O failure, a first close() was acknowledged by the actor and a
\* second one, called after the actor had ended, returned Ok as well
ClosedTwice ==
    \E a, b \in Closes :
        /\ a < b /\ IsDone(a) /\ IsDone(b)
        /\ call[a].via = "reply" /\ call[b].via = "sendfail"
        /\ call[b].res = ResOk
        /\ disconnected_sent /\ DiscCount = 1

\* C14: with the cancel signal set, the actor at the head of its loop takes
\* no request, whatever is queued: its only step is to terminate.  Once the
\* signal is set, only the request already in flight may still be written
\* or answered.
CancelBeforeQueue ==
    /\ [][ (cancel /\ apc = "idle") =>
              ( /\ cur' = 0 /\ apc' \in {"idle", "exited"}
                /\ write_log' = write_log
                /\ \A c \in DOMAIN slot : ~SlotSent(slot'[c]) \/ slot'[c] = slot[c]
                /\ apc' = "exited" =>
                       \A c \in DOMAIN slot : InQueue(c) => slot'[c].k = "dropped" ) ]_vars
    /\ [][ cancel =>
              ( /\ cur' \in {cur, 0}
                /\ \A c \in DOMAIN slot :
                       (trk'[c].wrote # trk[c].wrote \/ slot'[c] # slot[c]) =>
                           (c = cur \/ slot'[c].k = "dropped") ) ]_vars

\* the actor ended on the cancel signal with two commands still queued:
\* neither was written or answered
CancelledWithQueue ==
    \E a, b \in Callers :
        /\ a # b /\ cancel /\ apc = "exited"
        /\ Kind(call[a].op) # "Shutdown" /\ Kind(call[b].op) # "Shutdown"
        /\ slot[a].k = "dropped" /\ slot[b].k = "dropped"
        /\ write_log = << >>
        /\ \A c \in Callers : ~SlotSent(slot[c])

\* C15: for every port above 9 both encoders fail with InvalidParameter, and
\* a set_aux or query_aux call with such a port returns InvalidParameter in
\* the step that makes the call: nothing is enqueued, written or published,
\* and the actor's state is as it was.
BadPortsRejected ==
    \A p \in (MaxPort + 1)..MaxU8 :
        /\ encode_query_aux(p) = EncErr
        /\ \A v \in {0, 1, 9, 10, 99, 100, MaxU8} : encode_aux(p, v) = EncErr

BadPortCall(o) == o.m \in {"set_aux", "query_aux"} /\ o.a > MaxPort

BadPortNeverReachesActor ==
    /\ [](BadPortsRejected)
    /\ [](\A c \in Callers :
            (call[c].st # "idle" /\ BadPortCall(call[c].op)) =>
                /\ IsDone(c) /\ call[c].res = ResErr("InvalidParameter")
                /\ ~InQueue(c) /\ slot[c] = SlotEmpty /\ trk[c] = NoTrk)
    /\ [][ \A c \in DOMAIN call :
            (call'[c] # call[c] /\ BadPortCall(call'[c].op)) =>
                /\ queue' = queue /\ write_log' = write_log /\ bus' = bus
                /\ slot' = slot /\ apc' = apc /\ cur' = cur
                /\ disconnected_sent' = disconnected_sent
                /\ needs_drain' = needs_drain ]_vars

\* set_aux and query_aux were both called with a port above 9 on a working
\* device; nothing but Connected is on the bus, nothing was written
BothBadPortCallsRejected ==
    \E a, b \in Callers :
        /\ call[a].op = Op("set_aux", 10, 0) /\ call[b].op = Op("query_aux", 12, 0)
        /\ call[a].res = ResErr("InvalidParameter")
        /\ call[b].res = ResErr("InvalidParameter")
        /\ apc = "idle" /\ write_log = << >> /\ bus = << Connected >>

\* the state-change events: TxChanged{radio}, RxChanged{radio, mode},
\* AuxChanged{port, value}
IsChange(e) == e.t \in {"TxChanged", "RxChanged", "AuxChanged"}

\* the calls that returned Ok and whose arguments are those of event e
SucceededWith(e) ==
    { c \in Callers :
        /\ IsDone(c) /\ call[c].res = ResOk /\ slot[c] = SlotOk
        /\ \/ call[c].op.m = "set_tx" /\ e = Ev("TxChanged", call[c].op.a, 0)
           \/ call[c].op.m = "set_rx" /\ e = Ev("RxChanged", call[c].op.a, call[c].op.b)
           \/ call[c].op.m = "set_aux" /\ e = Ev("AuxChanged", call[c].op.a, call[c].op.b) }

\* C16: the state-change events on the bus are exactly those of the set_tx,
\* set_rx and set_aux calls that got a success reply from the actor, one
\* each, with the arguments of the call; no other call publishes one.
ChangeEventsAreSuccesses ==
    /\ \A i \in 1..Len(bus) :
          IsChange(bus[i]) => Count(bus, bus[i]) = Cardinality(SucceededWith(bus[i]))
    /\ \A c \in Callers :
          ( /\ IsDone(c) /\ call[c].res = ResOk
            /\ call[c].op.m \in {"set_tx", "set_rx", "set_aux"} ) =>
              /\ slot[c] = SlotOk /\ trk[c].wrote
              /\ \E i \in 1..Len(bus) : IsChange(bus[i]) /\ c \in SucceededWith(bus[i])

\* set_rx succeeded and its event is on the bus; a set_tx failed with Io
\* and published nothing
OneChangedOneFailed ==
    \E a, b \in Callers :
        /\ call[a].op.m = "set_rx" /\ call[a].res = ResOk
        /\ call[b].op.m = "set_tx" /\ call[b].res = ResErr("Io")
        /\ Count(bus, Ev("RxChanged", 2, 1)) = 1
        /\ \A i \in 1..Len(bus) : bus[i].t # "TxChanged"

\* s occurs in t as a run of consecutive elements
HasSub(t, s) ==
    \E i \in 0..(Len(t) - Len(s)) : SubSeq(t, i + 1, i + Len(s)) = s

\* "mismatch"
MismatchWord == << 109, 105, 115, 109, 97, 116, 99, 104 >>

\* the response line AUX<port><value> CR
AuxWire(q, v) == << 65, 85, 88 >> \o Decimal(q) \o Decimal(v) \o << CR >>

\* what query_aux(p) makes of the response line l
QueryAuxOutcome(p, l) == AuxResult(p, parse_aux_response(l))

AuxPortChecked ==
    \A p, q \in 0..MaxPort : \A v \in {0, 4, 9, 10, 99, 100, MaxU8} :
        IF q = p
        THEN QueryAuxOutcome(p, AuxWire(q, v)) = Res("value", "", v, << >>)
        ELSE /\ QueryAuxOutcome(p, AuxWire(q, v)).k = "err"
             /\ QueryAuxOutcome(p, AuxWire(q, v)).e = "Protocol"
             /\ HasSub(QueryAuxOutcome(p, AuxWire(q, v)).text, MismatchWord)

\* C17: query_aux(p) on a well-formed AUX response returns the response's
\* value when the response names port p, and otherwise fails with a Protocol
\* error whose message says "mismatch", returning no value: for all ports
\* 0..9 on both sides, and for every query_aux call that read such a line.
QueryAuxChecksPort ==
    /\ AuxPortChecked
    /\ \A c \in Callers :
          ( /\ IsDone(c) /\ call[c].op.m = "query_aux" /\ call[c].via = "reply"
            /\ slot[c].k = "line" /\ parse_aux_response(slot[c].line).ok ) =>
              IF parse_aux_response(slot[c].line).port = call[c].op.a
              THEN call[c].res =
                       Res("value", "", parse_aux_response(slot[c].line).val, << >>)
              ELSE /\ call[c].res.k = "err" /\ call[c].res.e = "Protocol"
                   /\ call[c].res.val = 0
                   /\ HasSub(call[c].res.text, MismatchWord)

\* query_aux(1) read the well-formed response AUX24 and failed with the
\* mismatch error
MismatchedPortRejected ==
    \E c \in Callers :
        /\ IsDone(c) /\ call[c].op = Op("query_aux", 1, 0)
        /\ slot[c] = SlotLine(AuxWire(2, 4))
        /\ call[c].res = Res("err", "Protocol", 0, MismatchMsg(1, 2))

\* C18: for every port 0..9 and value 0..255, parse_aux_response of the
\* bytes of encode_aux(port, value) succeeds with exactly (port, value), and
\* encode_aux of that result gives the same bytes again.
AuxRoundTrip ==
    /\ codec.pc = "wire" => codec.wire.ok
    /\ codec.pc \in {"parsed", "again"} =>
           codec.parsed = [ok |-> TRUE, port |-> codec.port, val |-> codec.value]
    /\ codec.pc = "again" => (codec.again.ok /\ codec.again = codec.wire)

\* (9, 255) went through: AUX9255 CR, parsed back, encoded to the same bytes
AuxRoundTripDone ==
    /\ codec.pc = "again" /\ codec.port = 9 /\ codec.value = 255
    /\ codec.wire.bytes = << 65, 85, 88, 57, 50, 53, 53, CR >>
    /\ codec.again.bytes = codec.wire.bytes

\* C19: publishing never waits for, and never fails because of, a receiver.
\* Whatever the receivers have or have not read (none subscribed, or one
\* subscribed that never reads), a caller holding a reply can return and
\* publish its change event, and the actor can take the next request and
\* carry out the one it holds, Disconnected sends included; an event
\* published before a receiver subscribed is never delivered to it.
PublishNeverWaits ==
    /\ \A c \in Callers :
           (call[c].st = "waiting" /\ slot[c].k # "empty") => ENABLED CallerReply(c)
    /\ apc = "write" => ENABLED ActorWrite
    /\ (apc = "idle" /\ ~cancel /\ queue # << >>) => ENABLED ActorRecv
    /\ \A r \in DOMAIN subs :
           (subs[r].on /\ subs[r].got > 0) => subs[r].last > subs[r].at

\* a receiver that has never read has more events waiting than the bus
\* holds, and the caller is making yet another call
PublishedPastSilentSubscriber ==
    \E r \in DOMAIN subs :
        /\ subs[r].on /\ subs[r].got = 0 /\ subs[r].missed = 0
        /\ Len(bus) - subs[r].at > BusCap
        /\ \E c \in Callers : call[c].st = "waiting"

\* a receiver's count of unread events
Unread(r) == Len(bus) - (subs[r].next - 1)

\* C20 as stated: the k-th event a receiver is handed is the k-th event
\* published after it subscribed, however many were published before it read.
NothingMissed ==
    \A r \in DOMAIN subs :
        (subs[r].on /\ subs[r].got > 0) => subs[r].last = subs[r].at + subs[r].got

\* C20, amended: a receiver is handed events published after it subscribed,
\* in publication order, each read handing over the event at its own position;
\* none is missing for a receiver that never had more than BusCap events
\* unread. Events are skipped only by a read that finds more than BusCap
\* unread: that read hands over nothing, counts the skipped events, and
\* leaves the receiver at the oldest of the BusCap events still kept.
InOrderUnlessLagged ==
    /\ [](\A r \in DOMAIN subs : subs[r].on =>
            /\ subs[r].got + subs[r].missed = subs[r].next - 1 - subs[r].at
            /\ subs[r].got > 0 => subs[r].at < subs[r].last /\ subs[r].last < subs[r].next
            /\ (subs[r].missed = 0 /\ subs[r].got > 0) =>
                   subs[r].last = subs[r].at + subs[r].got)
    /\ [][\A r \in DOMAIN subs :
            /\ subs[r].got' > subs[r].got =>
                   /\ Unread(r) <= BusCap
                   /\ subs[r].got' = subs[r].got + 1
                   /\ subs[r].last' = subs[r].next
                   /\ subs[r].next' = subs[r].next + 1
                   /\ subs[r].missed' = subs[r].missed
            /\ subs[r].missed' > subs[r].missed =>
                   /\ Unread(r) > BusCap
                   /\ subs[r].got' = subs[r].got
                   /\ subs[r].next' = Len(bus) - BusCap + 1
                   /\ subs[r].missed' = subs[r].missed + (subs[r].next' - subs[r].next)]_vars

\* a receiver that fell more than BusCap events behind was told so and has
\* since been handed a later event
LaggedThenReceived ==
    \E r \in DOMAIN subs :
        /\ subs[r].on /\ subs[r].missed > 0 /\ subs[r].got > 0
        /\ subs[r].last > subs[r].at + subs[r].got

MaxPad   == 2
ZeroPads == { [i \in 1..n |-> 48] : n \in 0..MaxPad }
Signs    == { << >>, << 43 >> }
AuxText(p, g, z, v) == << 65, 85, 88 >> \o Decimal(p) \o g \o z \o Decimal(v)
AuxTexts ==
    { AuxText(p, g, z, v) : p \in 0..MaxPort, g \in Signs, z \in ZeroPads,
                            v \in 0..MaxU8 }

\* C22: parse_aux_response accepts a line exactly when the line, without its
\* trailing CR/LF and surrounding whitespace, is AUX, one digit 0..9 and a
\* numeral of a value 0..255, and then returns that port and that value;
\* every other line gives the Protocol error and no (port, value) pair.
AuxParseExact ==
    codec.pc = "aux" =>
        LET s == StripLine(codec.line)
            r == codec.parsed
        IN  /\ r.ok <=> s \in AuxTexts
            /\ r.ok => /\ r.port <= MaxPort /\ r.val <= MaxU8
                        /\ \E g \in Signs, z \in ZeroPads :
                               s = AuxText(r.port, g, z, r.val)
            /\ ~r.ok => r = [ok |-> FALSE, port |-> 0, val |-> 0]

\* the line " AUX9255" CR LF was accepted as port 9, value 255
AuxLineAccepted ==
    /\ codec.pc = "aux"
    /\ codec.line = << 32, 65, 85, 88, 57, 50, 53, 53, CR, LF >>
    /\ codec.parsed = [ok |-> TRUE, port |-> 9, val |-> 255]

NamePrefix == << 78, 65, 77, 69 >>

\* C23 as stated: the name is the line with trailing CR/LF stripped, then a
\* leading NAME stripped if the line starts with it, then surrounding
\* whitespace trimmed; a line that does not start with NAME gives its
\* trimmed text unchanged.
NameStrippedThenTrimmed ==
    codec.pc = "name" =>
        LET s == TrimEndIn(codec.line, {CR, LF})
        IN  /\ codec.text = Trim(IF IsPrefix(NamePrefix, s) THEN Drop(s, 4) ELSE s)
            /\ ~IsPrefix(NamePrefix, codec.line) => codec.text = Trim(codec.line)

\* C23, amended: the name is obtained from the trimmed line (trailing CR/LF
\* and surrounding whitespace stripped first): if the trimmed line starts
\* with NAME, the rest after NAME, trimmed again; otherwise the trimmed line
\* unchanged.  The result never has surrounding whitespace, and every line
\* has a result.
NameTrimmedThenStripped ==
    codec.pc = "name" =>
        LET t == Trim(codec.line)
        IN  /\ IsPrefix(NamePrefix, t) => codec.text = Trim(Drop(t, 4))
            /\ ~IsPrefix(NamePrefix, t) => codec.text = t
            /\ codec.text = Trim(codec.text)
            /\ \A i \in 1..Len(codec.text) : codec.text[i] \notin {CR, LF}

\* the line " NAMESO2R" CR gave the name SO2R
NameBehindBlankStripped ==
    /\ codec.pc = "name"
    /\ codec.line = << 32, 78, 65, 77, 69, 83, 79, 50, 82, CR >>
    /\ codec.text = << 83, 79, 50, 82 >>

\* the protocol table: the text of each command, before the CR
WireText(o) ==
    CASE o = Op("set_tx", 1, 0) -> << 84, 88, 49 >>
      [] o = Op("set_tx", 2, 0) -> << 84, 88, 50 >>
      [] o = Op("set_rx", 1, 0) -> << 82, 88, 49 >>
      [] o = Op("set_rx", 2, 0) -> << 82, 88, 50 >>
      [] o = Op("set_rx", 1, 1) -> << 82, 88, 49, 83 >>
      [] o = Op("set_rx", 2, 1) -> << 82, 88, 50, 83 >>
      [] o = Op("set_rx", 1, 2) -> << 82, 88, 49, 82 >>
      [] o = Op("set_rx", 2, 2) -> << 82, 88, 50, 82 >>
      [] o.m = "query_aux"      -> << 63, 65, 85, 88, 48 + o.a >>
      [] OTHER                  -> << 63, 78, 65, 77, 69 >>

\* ds is the decimal numeral of v without zero padding
IsNumeralOf(ds, v) ==
    /\ ds # << >>
    /\ \A i \in 1..Len(ds) : IsDigit(ds[i])
    /\ Len(ds) > 1 => ds[1] # 48
    /\ DigitsValue(ds) = v

\* C24: for every valid input each encoder succeeds and gives the text of
\* the protocol table followed by one CR: TX1/TX2, RX{1,2}{,S,R}, ?NAME,
\* ?AUX{port}, AUX{port}{value} with the value as a decimal numeral without
\* zero padding, and for encode_raw the caller's text unchanged.
EncodersMatchTable ==
    /\ codec.pc = "enc" =>
           codec.enc.ok /\ codec.enc.bytes = WireText(codec.op) \o << CR >>
    /\ codec.pc = "raw" =>
           /\ codec.enc.ok /\ Len(codec.enc.bytes) = Len(codec.line) + 1
           /\ SubSeq(codec.enc.bytes, 1, Len(codec.line)) = codec.line
           /\ codec.enc.bytes[Len(codec.enc.bytes)] = CR
    /\ codec.pc = "wire" =>
           LET w == codec.wire.bytes
           IN  /\ codec.wire.ok /\ Len(w) >= 6
               /\ SubSeq(w, 1, 4) = << 65, 85, 88, 48 + codec.port >>
               /\ IsNumeralOf(SubSeq(w, 5, Len(w) - 1), codec.value)
               /\ w[Len(w)] = CR

\* encode_rx(Radio2, ReverseStereo) gave RX2R CR
ReverseStereoEncoded ==
    /\ codec.pc = "enc" /\ codec.op = Op("set_rx", 2, 2)
    /\ codec.enc = Enc(<< 82, 88, 50, 82, CR >>)

QueryNameBytes == << 63, 78, 65, 77, 69, CR >>      \* "?NAME" CR

\* C25: a build with the name query disabled writes nothing and names the
\* device "Unknown".  A build with the name query enabled writes ?NAME once,
\* before the actor exists; a read error or an expired read deadline on that
\* query still ends in a built device, named "Unknown", with nothing more
\* written.  The build fails only when that write fails: then the error is
\* Transport, nothing was written, and no actor and no event bus ever exist.
BuildNameQuery ==
    /\ [](/\ bpc \in {"start", "name_read", "failed"} => apc = "none" /\ bus = << >>
          /\ bpc = "name_read" => write_log = QueryNameBytes
          /\ bpc = "failed" =>
                 /\ closed /\ write_log = << >>
                 /\ name.how = "Transport"
          /\ (bpc = "built" /\ name.how \in {"disabled", "read_error", "timeout"}) =>
                 name.text = << 85, 110, 107, 110, 111, 119, 110 >>)
    /\ [][/\ (bpc = "start" /\ bpc' = "built") =>
                /\ write_log = << >> /\ write_log' = << >>
                /\ name'.how = "disabled" /\ apc' = "idle"
          /\ (bpc = "start" /\ bpc' = "name_read") =>
                write_log = << >> /\ ~closed
          /\ (bpc = "name_read" /\ bpc' # bpc) =>
                /\ bpc' = "built" /\ apc' = "idle"
                /\ write_log' = QueryNameBytes
                /\ (ReadFails => name'.how = "read_error")
          /\ bpc' = "failed" => (bpc = "failed" \/ (bpc = "start" /\ closed))
          /\ bpc = "built" => bpc' = "built"]_vars

\* the read of the name failed, and the device was built all the same:
\* "Unknown", ?NAME the only bytes written, the actor at the head of its loop
BuiltAfterNameReadError ==
    /\ bpc = "built" /\ name.how = "read_error"
    /\ name.text = << 85, 110, 107, 110, 111, 119, 110 >>
    /\ write_log = QueryNameBytes
    /\ apc = "idle" /\ bus = << Connected >>

\* C26: at most one request is in flight.  From the step that dequeues a
\* Write or WriteAndRead to the step that fulfils its reply slot, the actor
\* holds that request and no other: nothing is dequeued, no other reply slot
\* is touched, and every byte written is a byte of that request.  Bytes are
\* written to the stream and taken from it only by steps of the actor
\* handling a request.
OneInFlight ==
    /\ [](/\ cur # 0 <=> apc \in {"drain", "write", "read"}
          /\ cur # 0 => slot[cur] = SlotEmpty /\ ~InQueue(cur))
    /\ [][/\ cur # 0 =>
                /\ cur' \in {cur, 0}
                /\ IsPrefix(queue, queue')
                /\ \A c \in Callers \ {cur} : slot'[c] = slot[c]
                /\ (cur' = 0 => slot'[cur] # SlotEmpty /\ trk'[cur].seq > 0)
                /\ (write_log' # write_log =>
                       write_log' = write_log \o Payload(call[cur].op).bytes)
          /\ write_log' # write_log => apc = "write" /\ cur # 0
          /\ ~IsPrefix(read_buf, read_buf') => apc \in {"drain", "read"} /\ cur # 0]_vars

\* the first request has been answered, the second is waiting for its
\* response line with both payloads in the log, the third is still queued
SecondInFlightThirdQueued ==
    /\ cur = 2 /\ apc = "read" /\ queue = << 3 >>
    /\ Answered(1) /\ trk[1].wrote /\ slot[2] = SlotEmpty
    /\ write_log = Payload(call[1].op).bytes \o Payload(call[2].op).bytes

\* C27: whenever the actor is at the head of its loop, needs_drain is set
\* exactly when the WriteAndRead it handled last ended in a read Timeout.
\* The drain starts exactly in the step that takes up a WriteAndRead with
\* the flag set, before any byte of that request is written; it ends with
\* the flag cleared and the write next, and does not start again for the
\* same request.
DrainExactlyAfterTimeout ==
    /\ [](/\ apc = "idle" => (needs_drain <=> LastReadTimedOut)
          /\ apc = "drain" => Kind(call[cur].op) = "WriteAndRead" /\ ~trk[cur].wrote)
    /\ [][/\ (apc = "idle" /\ cur' # 0) =>
                (apc' = "drain" <=>
                    (needs_drain /\ Kind(call[cur'].op) = "WriteAndRead"))
          /\ (apc # "drain" /\ apc' = "drain") => (apc = "idle" /\ LastReadTimedOut)
          /\ (apc = "drain" /\ apc' # "drain") =>
                /\ apc' = "write" /\ cur' = cur
                /\ ~needs_drain' /\ write_log' = write_log
          /\ apc \in {"write", "read"} => apc' # "drain"]_vars

\* two queries in a row timed out: the second was taken up with the flag
\* set, ran the drain, and left the flag set again
SecondTimeoutRearmsDrain ==
    /\ apc = "idle" /\ needs_drain
    /\ \E c, d \in Callers :
          /\ slot[c] = SlotErr("Timeout") /\ slot[d] = SlotErr("Timeout")
          /\ trk[c].seq > 0 /\ trk[d].seq > trk[c].seq
          /\ trk[d].afterTimeout

WriteInHand == cur # 0 /\ Kind(call[cur].op) = "Write"

\* C28: a Write request goes straight to its write: it never runs the drain
\* and never waits for a line, no step handling it takes a byte from the
\* stream, and from the step that takes it up to the step that answers it,
\* with success or with Io, needs_drain keeps its value.  So a flag set by a
\* timeout is still set when the next WriteAndRead is taken up, and that
\* request runs the drain.
WriteLeavesDrainAlone ==
    /\ [](WriteInHand => apc = "write")
    /\ [][/\ (WriteInHand \/ (cur' # 0 /\ Kind(call[cur'].op) = "Write")) =>
                /\ needs_drain' = needs_drain
                /\ IsPrefix(read_buf, read_buf')
          /\ (WriteInHand /\ cur' = 0) => slot'[cur] \in {SlotOk, SlotErr("Io")}
          /\ (apc = "idle" /\ cur' # 0 /\ needs_drain
                 /\ Kind(call[cur'].op) = "WriteAndRead") => apc' = "drain"]_vars

\* a query timed out, a Write after it was answered with success, and the
\* query after that is running the drain
DrainAfterWriteAfterTimeout ==
    /\ apc = "drain" /\ needs_drain
    /\ \E c, d \in Callers :
          /\ slot[c] = SlotErr("Timeout") /\ trk[c].seq > 0
          /\ Kind(call[d].op) = "Write" /\ slot[d] = SlotOk
          /\ trk[d].seq > trk[c].seq

\* the drain's own next step can only be its end
DrainMustStop == ENABLED ActorDrainEnd /\ ~ENABLED ActorDrainRead

\* C29: drain_stale always terminates, whatever the device does.  Its clock
\* never passes the total window and a read never waits beyond the idle
\* cutoff; once a read has got no byte within the cutoff, or the port fails,
\* or the window has elapsed (with bytes still arriving or not), the drain
\* reads nothing more and its next step is its end; it ends only for one of
\* these reasons, and then the pending command is at its write with nothing
\* written in between.  A drain that has started always reaches that write.
DrainTerminates ==
    /\ [](apc = "drain" =>
            /\ dr.el <= DrainWindow /\ dr.wait <= DrainCutoff
            /\ (read_buf = << >> /\ dr.wait = DrainCutoff) => DrainMustStop
            /\ ReadFails => DrainMustStop
            /\ dr.el = DrainWindow => DrainMustStop)
    /\ [][apc = "drain" =>
            /\ Len(read_buf') < Len(read_buf) => dr.el < DrainWindow
            /\ apc' # "drain" =>
                  /\ apc' = "write" /\ cur' = cur /\ write_log' = write_log
                  /\ \/ dr.el = DrainWindow
                     \/ ReadFails
                     \/ read_buf = << >> /\ dr.wait = DrainCutoff]_vars
    /\ (apc = "drain" ~> apc = "write")

\* the window has elapsed while the device went on sending: the drain is at
\* its end with a stale byte still unread
WindowElapsedDeviceChattering ==
    /\ apc = "drain" /\ dr.el = DrainWindow /\ read_buf # << >>
    /\ ~ReadFails /\ trk[cur].drained

\* the step the actor takes next for the request in hand is possible
CanGoOn ==
    CASE apc = "drain" -> ENABLED (ActorDrainRead \/ ActorDrainEnd)
      [] apc = "write" -> ENABLED ActorWrite
      [] apc = "read"  -> ENABLED (ActorReadLine \/ ActorReadError \/ ActorReadTimeout)
      [] OTHER         -> TRUE

\* C30: a request the actor has taken up is not aborted by the cancel signal.
\* With the signal set and a request in hand, the actor can take that
\* request's next step, it does not exit and does not let go of the request
\* except by fulfilling its reply slot (success, a line, Io or Timeout), and
\* it arrives at the head of its loop; the actor exits only from there, and
\* with the signal set it does nothing else from there.
NoCancelMidRequest ==
    /\ [](cur # 0 => CanGoOn)
    /\ [][(cancel /\ cur # 0) =>
            /\ apc' # "exited" /\ cur' \in {cur, 0}
            /\ cur' = 0 =>
                  /\ apc' = "idle"
                  /\ slot'[cur].k \in {"ok", "line", "err"}
                  /\ trk'[cur].seq > 0]_vars
    /\ [][(apc # "exited" /\ apc' = "exited") => (apc = "idle" /\ cur = 0)]_vars
    /\ [][(cancel /\ apc = "idle" /\ apc' # "idle") => apc' = "exited"]_vars

\* a query was answered with its line while the cancel signal was already
\* set, and the actor exited afterwards
AnsweredUnderCancelThenExited ==
    /\ apc = "exited" /\ cancel
    /\ \E c \in Callers :
          /\ Kind(call[c].op) = "WriteAndRead"
          /\ slot[c].k = "line" /\ trk[c].cancelAtReply

\* C31: the outer deadline covers the wait for room in the command channel:
\* a caller whose send() found the channel full is released (its call
\* returns) even if the actor never takes a request out again.
BlockedSenderReleased ==
    \A c \in LateCallers : (call[c].st = "sending") ~> (call[c].st = "done")

\* C32: an I/O failure does not end the actor.  A reply slot is fulfilled with
\* an Io error only for the request in hand, whose write or read the port
\* refused; that step publishes Disconnected if none was published, leaves
\* the queue alone and takes the actor back to the head of its loop, where
\* it can receive the next request.  Every request written after that is
\* attempted like the first: Io again when the port refuses the write,
\* otherwise its bytes are written and a Write is fulfilled with success.
ActorSurvivesIoFailure ==
    /\ [][\A c \in Callers :
            (slot[c] # SlotErr("Io") /\ slot'[c] = SlotErr("Io")) =>
                /\ cur = c /\ apc \in {"write", "read"}
                /\ (apc = "write" => closed) /\ (apc = "read" => ReadFails)
                /\ apc' = "idle" /\ queue' = queue
                /\ disconnected_sent' /\ Count(bus', Disconnected) = 1]_vars
    /\ [](apc = "idle" /\ disconnected_sent /\ ~cancel /\ queue # << >>
            => ENABLED ActorRecv)
    /\ [][(disconnected_sent /\ apc = "write" /\ apc' # "write") =>
            IF closed
            THEN slot'[cur] = SlotErr("Io") /\ write_log' = write_log
            ELSE /\ write_log' = write_log \o Payload(call[cur].op).bytes
                 /\ Kind(call[cur].op) = "Write" => slot'[cur] = SlotOk]_vars

\* a query failed on its read, the command after it was written and
\* acknowledged, the command after that failed on its write: two Io errors
\* and one Disconnected
FailedSucceededFailed ==
    \E a, b, d \in Callers :
        /\ slot[a] = SlotErr("Io") /\ slot[b] = SlotOk /\ slot[d] = SlotErr("Io")
        /\ trk[a].seq > 0 /\ trk[a].seq < trk[b].seq /\ trk[b].seq < trk[d].seq
        /\ trk[b].wrote /\ Kind(call[b].op) = "Write"
        /\ DiscCount = 1

\* C33: close() (IoHandle::shutdown) never returns an error, and when it has
\* returned the actor has terminated or the cancel signal is set.  When the
\* acknowledgement arrived the actor has left its loop; when the send
\* failed, the reply slot was dropped or the deadline expired, the cancel
\* signal is set.
ShutdownAlwaysOk ==
    \A c \in Callers :
        (IsDone(c) /\ call[c].op.m = "close") =>
            /\ call[c].res = ResOk
            /\ apc = "exited" \/ cancel
            /\ call[c].via \in {"sendfail", "dropped", "deadline", "reply"}
            /\ call[c].via \in {"sendfail", "dropped", "deadline"} => cancel
            /\ call[c].via = "reply" => apc = "exited"

\* close() gave up on its deadline while the actor was busy with a request:
\* it returned Ok and left the cancel signal set for the running actor
ShutdownGaveUpActorBusy ==
    \E c \in Callers :
        /\ IsDone(c) /\ call[c].op.m = "close" /\ call[c].via = "deadline"
        /\ call[c].res = ResOk
        /\ apc = "read" /\ cancel

\* C34: state-change events are on the bus in the order in which their
\* commands were written to the stream: of two calls that have both
\* published, the one written first published first.
EventsInWriteOrder ==
    \A a, b \in Callers :
        (trk[a].ev > 0 /\ trk[b].ev > 0 /\ trk[a].seq < trk[b].seq)
            => trk[a].ev < trk[b].ev

\* C35: on a device that ends each response with CR LF and answers in time,
\* a query that returns a line returns the line sent for that same request
\* (up to its CR), made of bytes of its own response only; the LF left over
\* from the response before is never returned as a line.
CrLfLineIsOwnResponse ==
    \A c \in Callers :
        slot[c].k = "line" =>
            /\ slot[c].line \in Responses(call[c].op)
            /\ trk[c].tags = {c}
            /\ slot[c].line # LeftOver

\* C36 as stated: once a Disconnected is on the bus no TxChanged, RxChanged
\* or AuxChanged follows it.
Changes == {"TxChanged", "RxChanged", "AuxChanged"}

DisconnectedIsLast ==
    \A i, j \in 1..Len(bus) :
        (i < j /\ bus[i] = Disconnected) => bus[j].t \notin Changes

\* C36 (amended): Disconnected is the last event the actor publishes, and
\* the only one; the state-change events are published by the callers, each
\* for a set_* command that the actor wrote and acknowledged, and may follow
\* it.  Every step puts at most one event on the bus; a Disconnected comes
\* from the actor and is the first one; a state-change event comes from the
\* caller whose acknowledged command it names; nothing is written once the
\* actor has exited.
ChangesOnlyForAcknowledged ==
    /\ [](\A i \in 1..Len(bus) :
            bus[i].t \in Changes =>
                \E c \in Callers :
                    /\ trk[c].ev = i /\ bus[i] = ChangeEvent(call[c].op)
                    /\ slot[c] = SlotOk /\ trk[c].wrote)
    /\ [][bus' # bus =>
            /\ Len(bus') = Len(bus) + 1 /\ SubSeq(bus', 1, Len(bus)) = bus
            /\ bus'[Len(bus')] = Disconnected =>
                  /\ DiscCount = 0 /\ apc # "exited" /\ call' = call
            /\ bus'[Len(bus')] # Disconnected =>
                  /\ bus'[Len(bus')].t \in Changes
                  /\ UNCHANGED << apc, cur, slot, write_log >>]_vars
    /\ [][apc = "exited" => UNCHANGED << apc, write_log >>]_vars

\* the read side of the link broke (Disconnected), the actor went on, a
\* set_tx was written and acknowledged after that and its TxChanged follows
\* the Disconnected on the bus
ChangeAfterDisconnected ==
    \E c \in Callers : \E i \in 1..Len(bus) :
        /\ bus[i] = Disconnected
        /\ trk[c].discAtReply = 1 /\ slot[c] = SlotOk
        /\ trk[c].ev > i /\ bus[trk[c].ev].t = "TxChanged"

\* C37: Connected is sent exactly once per built device, in the step that
\* completes the build, before the actor runs and before any receiver
\* exists; no receiver is ever handed it, and the only lifecycle event among
\* the events a receiver can be handed is Disconnected.
Lifecycle == {"Connected", "Disconnected"}

ConnectedNeverObserved ==
    /\ [](bpc # "built" =>
            /\ bus = << >> /\ apc = "none"
            /\ \A r \in DOMAIN subs : ~subs[r].on)
    /\ [](bpc = "built" => Count(bus, Connected) = 1 /\ bus[1] = Connected)
    /\ [][(bus' # bus /\ bus'[Len(bus')] = Connected) =>
            /\ bpc # "built" /\ bpc' = "built" /\ apc = "none"
            /\ \A r \in DOMAIN subs : ~subs[r].on]_vars
    /\ [](\A r \in DOMAIN subs :
            subs[r].on =>
                /\ subs[r].at >= 1 /\ subs[r].next > subs[r].at
                /\ subs[r].got > 0 => bus[subs[r].last] # Connected
                /\ \A i \in (subs[r].at + 1)..Len(bus) :
                      bus[i].t \in Lifecycle => bus[i] = Disconnected)

\* a receiver obtained right after the build, with Connected the only event
\* sent so far, was handed Disconnected as its first event
FirstEventDisconnected ==
    \E r \in DOMAIN subs :
        /\ subs[r].on /\ subs[r].at = 1 /\ bus[1] = Connected
        /\ subs[r].got = 1 /\ subs[r].last = 2 /\ bus[2] = Disconnected

============================================================================
